---------------------------- MODULE Spec2Model ----------------------------
(***************************************************************************)
(* Model of arcfinder/computing.py and                                     *)
(* arcfinder/multiprocessing_helper_functions.py of pulsarpkg.             *)
(*                                                                         *)
(* Numbers: axis coordinates and grid cells are Python floats in the code. *)
(* The model draws them from small sets of integers, on which float()      *)
(* changes no value.  Indices are 1-based here: index k of the model is    *)
(* Python index k-1.                                                       *)
(***************************************************************************)
EXTENDS Integers, Sequences, FiniteSets, TLC

(***************************************************************************)
(* Bounds                                                                  *)
(***************************************************************************)
\* longest axis (rows or columns) of a grid handed to Indexed2D
MaxLen == 2
\* axis coordinates are 0 and TopCoord; requested coordinates run from -1 to
\* TopCoord + 1: below, on, between (nearer to one, or midway) and above them
TopCoord == 3

(***************************************************************************)
(* Python built-ins used by the code                                       *)
(***************************************************************************)
Abs(v) == IF v < 0 THEN -v ELSE v

SeqRange(s) == {s[k] : k \in 1..Len(s)}

\* min(list) and max(list) of a non-empty list
PyMin(s) == CHOOSE m \in SeqRange(s) : \A v \in SeqRange(s) : m <= v
PyMax(s) == CHOOSE m \in SeqRange(s) : \A v \in SeqRange(s) : m >= v

\* list.index(v): position of the first element equal to v
PyIndex(s, v) == CHOOSE k \in 1..Len(s) : s[k] = v /\ \A j \in 1..(k-1) : s[j] # v

\* s[lo-1:hi] of Python for 1 <= lo: elements lo..hi, cut at the end of s
PySlice(s, lo, hi) ==
    LET top == IF hi < Len(s) THEN hi ELSE Len(s)
    IN  IF top < lo THEN << >> ELSE [k \in 1..(top - lo + 1) |-> s[lo + k - 1]]

\* all sequences over S of length 0..n
SeqsUpTo(S, n) == UNION {[1..k -> S] : k \in 0..n}

(***************************************************************************)
(* Values handed to the operations                                         *)
(***************************************************************************)
AxisValues == {0, TopCoord}
AxisInputs == SeqsUpTo(AxisValues, MaxLen)
Coords == (0 - 1)..(TopCoord + 1)

\* an argument that may be left out (None)
Omitted == [given |-> FALSE, v |-> 0]
Given(v) == [given |-> TRUE, v |-> v]
Bounds == {Omitted} \cup {Given(v) : v \in Coords}
\* slice(start, stop) as written lo:hi in sec[ylo:yhi, xlo:xhi]
Slices == [start : Bounds, stop : Bounds]
NoSlice == [start |-> Omitted, stop |-> Omitted]

\* a rectangular r x c matrix whose cells all differ: cell (i, j) is 10*i + j
MkData(r, c) == [i \in 1..r |-> [j \in 1..c |-> 10 * i + j]]
\* a list of rows of unequal length
Ragged == << <<11, 12>>, <<21>> >>
DataInputs == {MkData(r, c) : r \in 0..MaxLen, c \in 0..MaxLen} \cup {Ragged}

(***************************************************************************)
(* numpy float arithmetic, exact: a number is n/d in lowest terms with      *)
(* d > 0; d = 0 stands for the values a division by zero produces: 1/0 is  *)
(* inf, -1/0 is -inf and 0/0 is nan.  Rounding is not modelled, nor is the *)
(* sign of zero.                                                           *)
(***************************************************************************)
RECURSIVE GCD(_, _)
GCD(a, b) == IF b = 0 THEN a ELSE GCD(b, a % b)

Sign(v) == IF v > 0 THEN 1 ELSE IF v < 0 THEN 0 - 1 ELSE 0

Frac(n, d) ==
    IF d = 0 THEN [n |-> Sign(n), d |-> 0]
    ELSE LET g == GCD(Abs(n), Abs(d))
         IN  [n |-> Sign(d) * Sign(n) * (Abs(n) \div g), d |-> Abs(d) \div g]

R(v) == [n |-> v, d |-> 1]
NaN == [n |-> 0, d |-> 0]
IsNaN(a) == a.d = 0 /\ a.n = 0
IsFinite(a) == a.d # 0

RAdd(a, b) ==
    IF a.d = 0 /\ b.d = 0 THEN (IF a.n = b.n THEN a ELSE NaN)
    ELSE LET g == GCD(a.d, b.d)
         IN  Frac(a.n * (b.d \div g) + b.n * (a.d \div g), (a.d \div g) * b.d)
RMul(a, b) == Frac(a.n * b.n, a.d * b.d)
RDiv(a, b) ==
    IF a.d = 0 /\ b.d = 0 THEN NaN
    ELSE IF a.d = 0 THEN [n |-> IF b.n < 0 THEN 0 - a.n ELSE a.n, d |-> 0]
    ELSE Frac(a.n * b.d, a.d * b.n)
RNeg(a) == [n |-> 0 - a.n, d |-> a.d]
RSub(a, b) == RAdd(a, RNeg(b))
\* a < b and a == b of floats: false whenever a nan is involved
RLt(a, b) ==
    /\ ~IsNaN(a) /\ ~IsNaN(b)
    /\ IF a.d = 0 /\ b.d = 0 THEN a.n < b.n
       ELSE IF a.d = 0 THEN a.n < 0
       ELSE IF b.d = 0 THEN b.n > 0
       ELSE a.n * b.d < b.n * a.d
REq(a, b) == ~IsNaN(a) /\ ~IsNaN(b) /\ a = b

RAbs(a) == IF RLt(a, R(0)) THEN RNeg(a) ELSE a

RECURSIVE RSum(_)
RSum(s) == IF s = << >> THEN R(0) ELSE RAdd(s[1], RSum(Tail(s)))

\* np.mean of a 1-d array
NpMean(s) == RDiv(RSum(s), R(Len(s)))

\* arr.T of a rectangular array with at least one row
Transpose(arr) == [j \in 1..Len(arr[1]) |-> [i \in 1..Len(arr) |-> arr[i][j]]]

(***************************************************************************)
(* arr_normalize_axis                                                      *)
(***************************************************************************)
\* np.mean(mask * row)
MaskedMean(mask, row) == NpMean([j \in 1..Len(row) |-> RMul(mask[j], row[j])])

\* every row times mean / (its own mean)
ScaleRows(arr, means, mean) ==
    [i \in 1..Len(arr) |->
        LET scaled == {[j \in 1..Len(arr[i]) |-> RMul(arr[i][j], factor)] :
                          factor \in {RDiv(mean, means[i])}}
        IN  CHOOSE row \in scaled : TRUE]

\* the rows rescaled by the plain mean of each row instead of the masked one
NormalizeRowsUnmasked(arr, mask) ==
    LET scaled ==
            {ScaleRows(arr, [i \in 1..Len(arr) |-> NpMean(arr[i])],
                       RDiv(RSum(means), R(Len(arr)))) :
                means \in {[i \in 1..Len(arr) |-> MaskedMean(mask, arr[i])]}}
    IN  CHOOSE out \in scaled : TRUE

\* the branch axis 'y': the mean of the masked row means, then every row
\* times mean / (its own masked mean)
NormalizeRows(arr, mask) ==
    LET scaled ==
            {ScaleRows(arr, means, RDiv(RSum(means), R(Len(arr)))) :
                means \in {[i \in 1..Len(arr) |-> MaskedMean(mask, arr[i])]}}
    IN  CHOOSE out \in scaled : TRUE

\* arr_normalize_axis(arr, axis, mask): mask None is a mask of ones as long
\* as a row of the array that the 'y' branch is given
arr_normalize_axis(arr, axis, mask) ==
    LET ones(a) == [j \in 1..Len(a[1]) |-> R(1)]
    IN  IF axis = "None" THEN arr
        ELSE IF axis = "y"
        THEN NormalizeRows(arr, IF mask.given THEN mask.v ELSE ones(arr))
        ELSE Transpose(NormalizeRows(Transpose(arr),
                           IF mask.given THEN mask.v ELSE ones(Transpose(arr))))

(***************************************************************************)
(* Secondary.get_secondary_spectrum                                        *)
(*                                                                         *)
(* The squared magnitude of the shifted transform of the real, mean-free   *)
(* dynamic spectrum is the input of the model: a grid of powers that is    *)
(* symmetric under reflection through the zero-frequency cell.  A power is *)
(* written as its level q, for the power 10^(q/10), or as ZeroPower.  The  *)
(* row of zero conjugate frequency holds what is left of the column means  *)
(* that Dynamic.get_dynamic_spectrum has made equal: it lies below the     *)
(* peak and may be exactly zero.                                           *)
(***************************************************************************)
nbins == 25
ZeroPower == 0 - 1
NegInf == [n |-> 0 - 1, d |-> 0]

\* index of zero frequency after fftshift, in a 1-based axis of length n
Centre(n) == (n \div 2) + 1

\* the index that holds the negated frequency
Mirror(i, n) ==
    LET f == (Centre(n) - i)
        g == IF f > n - Centre(n) THEN f - n ELSE f
    IN  g + Centre(n)

\* 10. * np.log10(secondary / np.max(secondary))
LogPower(power) ==
    LET top == PyMax([k \in 1..(Len(power) * Len(power[1])) |->
                        power[((k - 1) \div Len(power[1])) + 1]
                             [((k - 1) % Len(power[1])) + 1]])
    IN  [i \in 1..Len(power) |->
            [j \in 1..Len(power[i]) |->
                IF power[i][j] = ZeroPower THEN NegInf
                ELSE R(power[i][j] - top)]]

\* the masks of the two normalisations: i is the 0-based position
FreqMask(m) == [j \in 1..m |-> IF 4 * (j - 1) < m \/ 4 * (j - 1) > 3 * m
                               THEN R(1) ELSE R(0)]
TimeMask(n) == [i \in 1..n |-> IF 4 * (i - 1) < n THEN R(1) ELSE R(0)]

CellsOf(g) == {c \in (1..Len(g)) \X (1..Len(g[1])) : TRUE}
AllFinite(g) == \A c \in CellsOf(g) : IsFinite(g[c[1]][c[2]])

\* np.min and np.max of a grid of finite values
NpMin(g) ==
    LET c == CHOOSE c \in CellsOf(g) :
                 \A e \in CellsOf(g) : ~RLt(g[e[1]][e[2]], g[c[1]][c[2]])
    IN  g[c[1]][c[2]]
NpMax(g) ==
    LET c == CHOOSE c \in CellsOf(g) :
                 \A e \in CellsOf(g) : ~RLt(g[c[1]][c[2]], g[e[1]][e[2]])
    IN  g[c[1]][c[2]]

\* math.floor of a finite value
RFloor(a) == a.n \div a.d

\* the bin of np.histogram(.., bins=nbins) that counts v: equal-width bins
\* over [lo, hi] with hi in the last one; a single-valued grid is binned over
\* [lo - 0.5, hi + 0.5]
BinOf(v, lo, hi) ==
    IF lo = hi THEN nbins \div 2
    ELSE IF v = hi THEN nbins - 1
    ELSE RFloor(RDiv(RMul(RSub(v, lo), R(nbins)), RSub(hi, lo)))

\* secondary[np.where(secondary < xValDb)] = xValDb, for the bin xVal
ClipBelow(g, lo, hi, xVal) ==
    LET binsize == R(RFloor(RDiv(RSub(hi, lo), R(nbins))))
        clipped ==
            {[status |-> "ok", xVal |-> xVal, xValDb |-> xValDb, lo |-> lo, hi |-> hi,
              grid |-> [i \in 1..Len(g) |-> [j \in 1..Len(g[i]) |->
                          IF RLt(g[i][j], xValDb) THEN xValDb ELSE g[i][j]]]] :
                xValDb \in {RAdd(RAdd(lo, RMul(binsize, R(xVal))), R(3))}}
    IN  CHOOSE r \in clipped : TRUE

\* np.histogram(secondary, bins=nbins)[0] over the range [lo, hi]
Histogram(g, lo, hi) ==
    LET counted ==
            {[b \in 0..(nbins - 1) |-> Cardinality({c \in DOMAIN bin : bin[c] = b})] :
                bin \in {[c \in CellsOf(g) |-> BinOf(g[c[1]][c[2]], lo, hi)]}}
    IN  CHOOSE count \in counted : TRUE

\* the steps after the histogram: int(maxindex[0]) raises TypeError when
\* several bins share the highest count
ClipAtNoisePeak(g, lo, hi, count) ==
    LET peak == CHOOSE k \in {count[b] : b \in 0..(nbins - 1)} :
                    \A b \in 0..(nbins - 1) : count[b] <= k
        maxindex == {b \in 0..(nbins - 1) : count[b] = peak}
    IN  IF Cardinality(maxindex) > 1
        THEN [status |-> "TypeError", xVal |-> 0, xValDb |-> R(0), lo |-> lo,
              hi |-> hi, grid |-> g]
        ELSE ClipBelow(g, lo, hi, CHOOSE b \in maxindex : TRUE)

\* the background step: np.histogram raises ValueError on a grid that holds
\* a value that is not finite; binsize is a floor division
SubtractBackground(g) ==
    IF ~AllFinite(g)
    THEN [status |-> "ValueError", xVal |-> 0, xValDb |-> R(0), lo |-> R(0),
          hi |-> R(0), grid |-> g]
    ELSE LET done == {ClipAtNoisePeak(g, range[1], range[2], count) :
                         range \in {<<NpMin(g), NpMax(g)>>},
                         count \in {Histogram(g, NpMin(g), NpMax(g))}}
         IN  CHOOSE r \in done : TRUE

\* secondary[ymin:ymax, xmin:xmax] with xscale = yscale = 1.
CropWindow(g, cut_off_bottom) ==
    LET ymax == IF cut_off_bottom THEN Len(g) \div 2 ELSE Len(g)
    IN  [i \in 1..ymax |-> g[i]]

\* int(v): the fraction is dropped, towards 0
PyInt(a) == IF a.n >= 0 THEN a.n \div a.d ELSE 0 - ((0 - a.n) \div a.d)

\* the positions, counted from 1, that the slice [lo:hi] takes out of n: a
\* negative bound counts from the end, a bound beyond an end is that end
SlicePositions(lo, hi, n) ==
    LET from == IF lo < 0 THEN (IF lo + n < 0 THEN 0 ELSE lo + n)
                ELSE (IF lo > n THEN n ELSE lo)
        to == IF hi < 0 THEN (IF hi + n < 0 THEN 0 ELSE hi + n)
              ELSE (IF hi > n THEN n ELSE hi)
    IN  [k \in 1..(IF to > from THEN to - from ELSE 0) |-> from + k]

\* xmin, xmax, ymin and ymax of get_secondary_spectrum for scales that are
\* not 0, and the rows and columns that secondary[ymin:ymax, xmin:xmax] takes
crop_bounds(ysize, xsize, cut_off_bottom, xscale, yscale) ==
    LET half(size) == RDiv(R(size), R(2))
        reach(size, scale) == RDiv(R(size), RMul(R(2), scale))
        xmin == PyInt(RSub(half(xsize), reach(xsize, xscale)))
        xmax == PyInt(RAdd(half(xsize), reach(xsize, xscale)))
        ymin == PyInt(RSub(half(ysize), reach(ysize, yscale)))
        ymax == IF cut_off_bottom THEN PyInt(half(ysize))
                ELSE PyInt(RAdd(half(ysize), reach(ysize, yscale)))
    IN  [rows |-> SlicePositions(ymin, ymax, ysize),
         cols |-> SlicePositions(xmin, xmax, xsize)]

\* secondary[ymin:ymax, xmin:xmax]
CropScaled(g, cut_off_bottom, xscale, yscale) ==
    LET kept == crop_bounds(Len(g), Len(g[1]), cut_off_bottom, xscale, yscale)
    IN  [i \in 1..Len(kept.rows) |->
            [j \in 1..Len(kept.cols) |-> g[kept.rows[i]][kept.cols[j]]]]

NoBackground == [status |-> "ok", xVal |-> 0, xValDb |-> R(0), lo |-> R(0),
                 hi |-> R(0), grid |-> << >>]

\* get_secondary_spectrum from the log step on; every stage is kept
get_secondary_spectrum(power, opts) ==
    LET runs ==
        UNION {UNION {UNION {
            {[status |-> bg.status, logged |-> logged, normalized |-> norm_t,
              background |-> bg,
              secondary |-> IF bg.status = "ok"
                            THEN CropWindow(bg.grid, opts.cut_off_bottom) ELSE << >>] :
                bg \in {IF opts.subtract_secondary_background
                        THEN SubtractBackground(norm_t)
                        ELSE [NoBackground EXCEPT !.grid = norm_t]}} :
                norm_t \in {IF opts.normalize_time
                            THEN arr_normalize_axis(norm_f, "x",
                                                    Given(TimeMask(Len(norm_f))))
                            ELSE norm_f}} :
                norm_f \in {IF opts.normalize_frequency
                            THEN arr_normalize_axis(logged, "y",
                                                    Given(FreqMask(Len(logged[1]))))
                            ELSE logged}} :
                logged \in {LogPower(power)}}
    IN  CHOOSE run \in runs : TRUE

(***************************************************************************)
(* The curvature sweep: __give_eta_list, crunchy and its weights,           *)
(* sort_dict_by_key.                                                       *)
(*                                                                         *)
(* np.sqrt is exact on the curvatures used here, which are 1/k^2.  np.exp, *)
(* the square root of the kernel and the cube roots of the closest point   *)
(* have no exact value: gaussian halves where np.exp divides by e, in      *)
(* whole steps of its exponent, the closest point is the point of the      *)
(* parabola below or above (px, py), the distance from the origin is its   *)
(* square, and the cut at e^-3 is a cut at 1/20.                           *)
(***************************************************************************)
\* the integer root of a perfect square
IntSqrt(v) == CHOOSE r \in 0..v : r * r = v
RSqrt(a) == Frac(IntSqrt(a.n), IntSqrt(a.d))

\* np.linspace(start, stop, num) for num >= 0
Linspace(start, stop, num) ==
    [i \in 1..num |->
        IF num = 1 THEN start
        ELSE RAdd(start, RDiv(RMul(R(i - 1), RSub(stop, start)), R(num - 1)))]

RMin(a, b) == IF RLt(b, a) THEN b ELSE a
RMax(a, b) == IF RLt(a, b) THEN b ELSE a

\* __give_eta_list without the branch for a single eta
give_eta_list_linspace(eta_range, num_etas) ==
    LET x_max == RSqrt(RDiv(R(1), RMin(eta_range[1], eta_range[2])))
        x_min == RSqrt(RDiv(R(1), RMax(eta_range[1], eta_range[2])))
        xs == Linspace(x_min, x_max, num_etas)
    IN  [i \in 1..num_etas |-> RDiv(R(1), RMul(xs[i], xs[i]))]

\* __give_eta_list(eta_range, num_etas)
give_eta_list(eta_range, num_etas) ==
    IF num_etas # 1
    THEN LET x_max == RSqrt(RDiv(R(1), RMin(eta_range[1], eta_range[2])))
             x_min == RSqrt(RDiv(R(1), RMax(eta_range[1], eta_range[2])))
             xs == Linspace(x_min, x_max, num_etas)
         IN  [i \in 1..num_etas |-> RDiv(R(1), RMul(xs[i], xs[i]))]
    ELSE << RDiv(RAdd(eta_range[1], eta_range[2]), R(2)) >>

RECURSIVE Pow2(_)
Pow2(k) == IF k = 0 THEN 1 ELSE 2 * Pow2(k - 1)
\* math.ceil of a finite value
RCeil(a) == 0 - ((0 - a.n) \div a.d)

\* np.exp(-(x - mu)**2 / (2. * sig**2)), a division by sig = 0 included;
\* far out the value is 0, as np.exp underflows
gaussian(x, mu, sig) ==
    LET halved ==
            {IF IsNaN(t) THEN NaN
             ELSE IF ~IsFinite(t) \/ RCeil(t) > 12 THEN R(0)
             ELSE Frac(1, Pow2(RCeil(t))) :
                t \in {RDiv(RMul(RSub(x, mu), RSub(x, mu)),
                            RMul(R(2), RMul(sig, sig)))}}
    IN  CHOOSE g \in halved : TRUE

closest_point_on_the_parabola(a, px, py) == px

\* the weight of the cell at (px, py) for the parabola y = eta x^2, or
\* None for a weight under the cut
None == [none |-> TRUE, v |-> R(0)]
Some(v) == [none |-> FALSE, v |-> v]
WeightCut == Frac(1, 20)
weight_function(eta, px, py, sigma) ==
    LET x == closest_point_on_the_parabola(eta, px, py)
        y == RMul(eta, RMul(x, x))
        dist_from_origin == RAdd(RMul(px, px), RMul(py, py))
        ret_y == gaussian(RSub(py, y), R(0), sigma[1])
        ret_x == gaussian(RSub(px, x), R(0), sigma[2])
        ret == RMul(dist_from_origin, RMul(ret_x, ret_y))
    IN  IF RLt(ret, WeightCut) THEN None ELSE Some(ret)

\* np.sum in the place of np.nansum: None and zeros add nothing, a nan
\* makes the sum nan
SumFiltered(s) ==
    RSum([k \in 1..Len(s) |-> IF s[k].none THEN R(0) ELSE s[k].v])

\* np.nansum(list(filter(None, s))): None, zeros and nans add nothing
NanSumFiltered(s) ==
    RSum([k \in 1..Len(s) |->
             IF s[k].none \/ IsNaN(s[k].v) THEN R(0) ELSE s[k].v])

\* crunchy(eta, sec, hand, sigma): sec is the data with its two axes, the
\* cells are visited row by row; hand is not read
crunchy(eta, sec, sigma) ==
    LET ny == Len(sec.y_axis)
        nx == Len(sec.x_axis)
        sig == IF sigma.given THEN sigma.v
               ELSE << R(Abs(sec.y_axis[2] - sec.y_axis[1])),
                       R(Abs(sec.x_axis[2] - sec.x_axis[1])) >>
        weight(k) == weight_function(eta, R(sec.x_axis[((k - 1) % nx) + 1]),
                                     R(sec.y_axis[((k - 1) \div nx) + 1]), sig)
        cell(k) == sec.data[((k - 1) \div nx) + 1][((k - 1) % nx) + 1]
        powers == [k \in 1..(ny * nx) |->
                      IF weight(k).none THEN None
                      ELSE Some(RDiv(cell(k), RDiv(R(1), weight(k).v)))]
        powers_norm == [k \in 1..(ny * nx) |->
                           IF weight(k).none THEN None
                           ELSE Some(RDiv(R(1), RDiv(R(1), weight(k).v)))]
        p == NanSumFiltered(powers)
        pn == NanSumFiltered(powers_norm)
    IN  [eta |-> eta, power |-> RDiv(p, pn)]

\* powers = {}; for item in output: powers[item[0]] = item[1]
DictOf(output) ==
    {output[k] : k \in {k \in 1..Len(output) :
                           \A l \in (k + 1)..Len(output) : output[l].eta # output[k].eta}}

\* sort_dict_by_key: the items in ascending order of their keys
RECURSIVE sort_dict_by_key(_)
sort_dict_by_key(dictionary) ==
    IF dictionary = {} THEN << >>
    ELSE LET first == CHOOSE item \in dictionary :
                          \A other \in dictionary : ~RLt(other.eta, item.eta)
         IN  <<first>> \o sort_dict_by_key(dictionary \ {first})

(***************************************************************************)
(* Indexed2D                                                               *)
(***************************************************************************)
\* no object: a constructor that raised leaves nothing behind
NoGrid == [exists |-> FALSE, data |-> << >>, y_axis |-> << >>, x_axis |-> << >>,
           is_data_set |-> FALSE, are_axes_set |-> FALSE]

Raised(err, g) == [status |-> err, grid |-> g]
Ok(g) == [status |-> "ok", grid |-> g]

\* Indexed2D.set_data for a list of lists; the object is returned unchanged
\* together with the error when the call raises
set_data(g, data) ==
    IF \E k \in 1..Len(data) : Len(data[k]) # Len(data[1])
    THEN Raised("IndexError", g)
    ELSE IF g.are_axes_set
         THEN IF Len(data) = 0
              THEN Raised("IndexError", g)          \* data[0] of an empty list
              ELSE IF Len(data) = Len(g.y_axis) /\ Len(data[1]) = Len(g.x_axis)
                   THEN Ok([g EXCEPT !.is_data_set = TRUE, !.data = data])
                   ELSE Raised("IndexError", g)
         ELSE Ok([g EXCEPT !.is_data_set = TRUE, !.data = data])

\* set_axes comparing only the y axis with the data
set_axes_y_only(g, y_axis, x_axis) ==
    IF g.is_data_set
    THEN IF Len(g.data) = 0
         THEN Raised("IndexError", g)
         ELSE IF Len(y_axis) = Len(g.data)
              THEN Ok([g EXCEPT !.are_axes_set = TRUE,
                                !.y_axis = y_axis, !.x_axis = x_axis])
              ELSE Raised("IndexError", g)
    ELSE Ok([g EXCEPT !.are_axes_set = TRUE, !.y_axis = y_axis, !.x_axis = x_axis])

\* Indexed2D.set_axes for a tuple of two lists
set_axes(g, y_axis, x_axis) ==
    IF g.is_data_set
    THEN IF Len(g.data) = 0
         THEN Raised("IndexError", g)               \* self.data[0] of an empty array
         ELSE IF Len(y_axis) = Len(g.data) /\ Len(x_axis) = Len(g.data[1])
              THEN Ok([g EXCEPT !.are_axes_set = TRUE,
                                !.y_axis = y_axis, !.x_axis = x_axis])
              ELSE Raised("IndexError", g)
    ELSE Ok([g EXCEPT !.are_axes_set = TRUE, !.y_axis = y_axis, !.x_axis = x_axis])

\* Indexed2D.__init__: data and axes are optional; data is set first
Indexed2D(data, axes) ==
    LET g0 == [exists |-> TRUE, data |-> << << >> >>, y_axis |-> << >>,
               x_axis |-> << >>, is_data_set |-> FALSE, are_axes_set |-> FALSE]
        r1 == IF data.given THEN set_data(g0, data.v) ELSE Ok(g0)
    IN  IF r1.status # "ok" THEN Raised(r1.status, NoGrid)
        ELSE LET r2 == IF axes.given
                       THEN set_axes(r1.grid, axes.v[1], axes.v[2])
                       ELSE Ok(r1.grid)
             IN  IF r2.status # "ok" THEN Raised(r2.status, NoGrid) ELSE r2


\* the slice branch returning slice(start_index, stop_index), one short
SliceIndexHalfOpen(axis, value) ==
    LET bad(b) == b.given /\ Len(axis) > 0
                  /\ (b.v < PyMin(axis) \/ b.v > PyMax(axis))
        near(b) == LET diffs == [k \in 1..Len(axis) |-> Abs(axis[k] - b.v)]
                   IN  PyIndex(diffs, PyMin(diffs))
    IN  IF (value.start.given \/ value.stop.given) /\ Len(axis) = 0
        THEN [status |-> "ValueError", lo |-> 0, hi |-> 0]
        ELSE IF bad(value.start) \/ bad(value.stop)
        THEN [status |-> "IndexError", lo |-> 0, hi |-> 0]
        ELSE [status |-> "ok",
              lo |-> IF value.start.given THEN near(value.start) ELSE 1,
              hi |-> (IF value.stop.given THEN near(value.stop) ELSE Len(axis)) - 1]

\* the slice branch checking only the start bound against the axis
SliceIndexStartChecked(axis, value) ==
    LET bad(b) == b.given /\ Len(axis) > 0
                  /\ (b.v < PyMin(axis) \/ b.v > PyMax(axis))
        near(b) == LET diffs == [k \in 1..Len(axis) |-> Abs(axis[k] - b.v)]
                   IN  PyIndex(diffs, PyMin(diffs))
    IN  IF (value.start.given \/ value.stop.given) /\ Len(axis) = 0
        THEN [status |-> "ValueError", lo |-> 0, hi |-> 0]
        ELSE IF bad(value.start)
        THEN [status |-> "IndexError", lo |-> 0, hi |-> 0]
        ELSE [status |-> "ok",
              lo |-> IF value.start.given THEN near(value.start) ELSE 1,
              hi |-> IF value.stop.given THEN near(value.stop) ELSE Len(axis)]

\* the slice branch of Indexed2D.__get_y_index / __get_x_index, which are the
\* same code on the two axes: the bound checks, then abs-difference lists and
\* list.index(min).  lo..hi are the elements that slice(start_index,
\* stop_index + 1) selects.
SliceIndex(axis, value) ==
    LET bad(b) == b.given /\ Len(axis) > 0
                  /\ (b.v < PyMin(axis) \/ b.v > PyMax(axis))
        near(b) == LET diffs == [k \in 1..Len(axis) |-> Abs(axis[k] - b.v)]
                   IN  PyIndex(diffs, PyMin(diffs))
    IN  IF value.start.given /\ Len(axis) = 0
        THEN [status |-> "ValueError", lo |-> 0, hi |-> 0]      \* min([])
        ELSE IF bad(value.start)
        THEN [status |-> "IndexError", lo |-> 0, hi |-> 0]
        ELSE IF value.stop.given /\ Len(axis) = 0
        THEN [status |-> "ValueError", lo |-> 0, hi |-> 0]
        ELSE IF bad(value.stop)
        THEN [status |-> "IndexError", lo |-> 0, hi |-> 0]
        ELSE [status |-> "ok",
              lo |-> IF value.start.given THEN near(value.start) ELSE 1,
              hi |-> IF value.stop.given THEN near(value.stop) ELSE Len(axis)]

\* the scalar branch of __get_y_index / __get_x_index: the differences are
\* taken without np.absolute, then list.index(min)
ScalarIndex(axis, value) ==
    IF Len(axis) = 0
    THEN [status |-> "ValueError", idx |-> 0]                   \* min([])
    ELSE LET index == [k \in 1..Len(axis) |-> axis[k] - value]
         IN  [status |-> "ok", idx |-> PyIndex(index, PyMin(index))]

get_y_index(g, value) == SliceIndex(g.y_axis, value)
get_x_index(g, value) == SliceIndex(g.x_axis, value)

\* self.data[y_index, x_index] for two slices
SubData(data, ys, xs) ==
    LET rows == PySlice(data, ys.lo, ys.hi)
    IN  [i \in 1..Len(rows) |-> PySlice(rows[i], xs.lo, xs.hi)]

\* Indexed2D.__getitem__ with two slices: sec[y_lo:y_hi, x_lo:x_hi]
GetItemSlices(g, ysl, xsl) ==
    LET ys == get_y_index(g, ysl)
    IN  IF ys.status # "ok" THEN Raised(ys.status, NoGrid)
        ELSE LET xs == get_x_index(g, xsl)
             IN  IF xs.status # "ok" THEN Raised(xs.status, NoGrid)
                 ELSE Indexed2D(Given(SubData(g.data, ys, xs)),
                                Given(<<PySlice(g.y_axis, ys.lo, ys.hi),
                                        PySlice(g.x_axis, xs.lo, xs.hi)>>))

\* Indexed2D.__getitem__ with two scalars: sec[y, x].  The cell picked by the
\* two indices is a numpy scalar, which set_data refuses (neither list nor
\* ndarray), so the constructor raises TypeError whenever the cell exists.
GetItemScalars(g, y, x) ==
    LET yi == ScalarIndex(g.y_axis, y)
    IN  IF yi.status # "ok" THEN [status |-> yi.status, value |-> 0]
        ELSE LET xi == ScalarIndex(g.x_axis, x)
             IN  IF xi.status # "ok" THEN [status |-> xi.status, value |-> 0]
                 ELSE IF yi.idx > Len(g.data) \/ xi.idx > Len(g.data[yi.idx])
                      THEN [status |-> "IndexError", value |-> 0]
                      ELSE [status |-> "TypeError", value |-> 0]

(***************************************************************************)
(* State                                                                   *)
(***************************************************************************)
VARIABLES
    grid,       \* the Indexed2D object under test (Secondary.sec for crop)
    call,       \* the call being reported: its name, its arguments, the object before it
    result,     \* what the call returned or raised
    norm,       \* one call of arr_normalize_axis: its arguments and what it returns
    spectrum,   \* one call of get_secondary_spectrum: its input, options and stages
    sweep,      \* a Secondary, its curvature sweeps and their worker pools
    dynamic,    \* one call of Dynamic.__init__: its arguments and its outcome
    search      \* a Secondary, the searches called on it and their worker pools

gridVars == <<grid, call, result>>
vars == <<grid, call, result, norm, spectrum, sweep, dynamic, search>>

NoMask == [given |-> FALSE, v |-> << >>]
NormOff == [pc |-> "off", input |-> << >>, axis |-> "None", mask |-> NoMask,
            arr |-> << >>, out |-> << >>]
SecOff == [pc |-> "off"]
SweepOff == [pc |-> "off"]
DynOff == [pc |-> "off"]
SearchOff == [pc |-> "off"]

Idle == [op |-> "idle", ysl |-> NoSlice, xsl |-> NoSlice, y |-> 0, x |-> 0,
         hasData |-> FALSE, data |-> << >>,
         hasAxes |-> FALSE, y_axis |-> << >>, x_axis |-> << >>, pre |-> NoGrid]
NoResult == [status |-> "none", grid |-> NoGrid, value |-> 0]

GridIdle == call.op = "idle"

\* x = Indexed2D(data=.., axes=..): either argument may be left out
ConstructGrid(data, axes) ==
    /\ GridIdle /\ ~grid.exists
    /\ LET r == Indexed2D(data, axes)
       IN  /\ grid' = r.grid
           /\ result' = [status |-> r.status, grid |-> NoGrid, value |-> 0]
    /\ call' = [Idle EXCEPT !.op = "init",
                            !.hasData = data.given,
                            !.data = IF data.given THEN data.v ELSE << >>,
                            !.hasAxes = axes.given,
                            !.y_axis = IF axes.given THEN axes.v[1] ELSE << >>,
                            !.x_axis = IF axes.given THEN axes.v[2] ELSE << >>]
    /\ UNCHANGED <<norm, spectrum, sweep, dynamic, search>>

\* x.set_data(data)
SetData(data) ==
    /\ GridIdle /\ grid.exists
    /\ LET r == set_data(grid, data)
       IN  /\ grid' = r.grid
           /\ result' = [status |-> r.status, grid |-> NoGrid, value |-> 0]
    /\ call' = [Idle EXCEPT !.op = "set_data", !.hasData = TRUE, !.data = data,
                            !.pre = grid]
    /\ UNCHANGED <<norm, spectrum, sweep, dynamic, search>>

\* x.set_axes((y_axis, x_axis))
SetAxes(y_axis, x_axis) ==
    /\ GridIdle /\ grid.exists
    /\ LET r == set_axes(grid, y_axis, x_axis)
       IN  /\ grid' = r.grid
           /\ result' = [status |-> r.status, grid |-> NoGrid, value |-> 0]
    /\ call' = [Idle EXCEPT !.op = "set_axes", !.hasAxes = TRUE,
                            !.y_axis = y_axis, !.x_axis = x_axis, !.pre = grid]
    /\ UNCHANGED <<norm, spectrum, sweep, dynamic, search>>

\* x[y, x] with two numbers, on a grid that holds data and axes
At(y, x) ==
    /\ GridIdle /\ grid.exists /\ grid.is_data_set /\ grid.are_axes_set
    /\ LET r == GetItemScalars(grid, y, x)
       IN  result' = [status |-> r.status, grid |-> NoGrid, value |-> r.value]
    /\ grid' = grid
    /\ call' = [Idle EXCEPT !.op = "at", !.y = y, !.x = x, !.pre = grid]
    /\ UNCHANGED <<norm, spectrum, sweep, dynamic, search>>

\* x[y_lo:y_hi, x_lo:x_hi] on a grid that holds data and axes; the object
\* itself is left as it is (set_data writes float(cell) back into the cells of
\* the view it is given, which are floats already)
Range(ysl, xsl) ==
    /\ GridIdle /\ grid.exists /\ grid.is_data_set /\ grid.are_axes_set
    /\ LET r == GetItemSlices(grid, ysl, xsl)
       IN  result' = [status |-> r.status, grid |-> r.grid, value |-> 0]
    /\ grid' = grid
    /\ call' = [Idle EXCEPT !.op = "range", !.ysl = ysl, !.xsl = xsl, !.pre = grid]
    /\ UNCHANGED <<norm, spectrum, sweep, dynamic, search>>

\* Secondary.crop(y_lim, x_lim): self.sec = self.sec[y0:y1, x0:x1] with all
\* four limits given; self.sec was built with data and axes
crop(y_lim, x_lim) ==
    /\ GridIdle /\ grid.exists /\ grid.is_data_set /\ grid.are_axes_set
    /\ LET r == GetItemSlices(grid, y_lim, x_lim)
       IN  /\ grid' = IF r.status = "ok" THEN r.grid ELSE grid
           /\ result' = [status |-> r.status, grid |-> NoGrid, value |-> 0]
    /\ call' = [Idle EXCEPT !.op = "crop", !.ysl = y_lim, !.xsl = x_lim, !.pre = grid]
    /\ UNCHANGED <<norm, spectrum, sweep, dynamic, search>>

\* the scales handed to crop_percent: below 0, 0, 1 and above 1
CropScales == {0 - 1, 0, 1, 2}

\* Secondary.crop_percent(y_scale, x_scale): scales below 0 or above 1 raise
\* ValueError; otherwise self.sec = self.sec[y_max * y_scale:,
\* -x_max * x_scale:x_max * x_scale], and self.sec stays as it is when the
\* right-hand side raises (max of an empty axis included)
crop_percent(y_scale, x_scale) ==
    /\ GridIdle /\ grid.exists /\ grid.is_data_set /\ grid.are_axes_set
    /\ LET r == IF y_scale < 0 \/ x_scale < 0 \/ y_scale > 1 \/ x_scale > 1
                THEN Raised("ValueError", NoGrid)
                ELSE IF grid.y_axis = << >> \/ grid.x_axis = << >>
                THEN Raised("ValueError", NoGrid)
                ELSE GetItemSlices(
                         grid,
                         [start |-> Given(PyMax(grid.y_axis) * y_scale),
                          stop |-> Omitted],
                         [start |-> Given(0 - (PyMax(grid.x_axis) * x_scale)),
                          stop |-> Given(PyMax(grid.x_axis) * x_scale)])
       IN  /\ grid' = IF r.status = "ok" THEN r.grid ELSE grid
           /\ result' = [status |-> r.status, grid |-> NoGrid, value |-> 0]
    /\ call' = [Idle EXCEPT !.op = "crop_percent", !.y = y_scale, !.x = x_scale,
                            !.pre = grid]
    /\ UNCHANGED <<norm, spectrum, sweep, dynamic, search>>

\* the caller is done with the reported call and may make the next one
Return ==
    /\ ~GridIdle
    /\ call' = Idle
    /\ result' = NoResult
    /\ grid' = grid
    /\ UNCHANGED <<norm, spectrum, sweep, dynamic, search>>

Init ==
    /\ grid = NoGrid
    /\ dynamic = DynOff
    /\ search = SearchOff
    /\ call = Idle
    /\ result = NoResult
    /\ norm = NormOff
    /\ spectrum = SecOff
    /\ sweep = SweepOff

\* data=None and axes=None
NoData == [given |-> FALSE, v |-> << >>]
NoAxes == [given |-> FALSE, v |-> << << >>, << >> >>]
OptData == {NoData} \cup {Given(d) : d \in DataInputs}
OptAxes == {NoAxes} \cup {Given(<<ya, xa>>) : ya \in AxisInputs, xa \in AxisInputs}
GivenSlices == {s \in Slices : s.start.given /\ s.stop.given}

Next ==
    \/ GridIdle /\ ~grid.exists
         /\ \E data \in OptData, axes \in OptAxes : ConstructGrid(data, axes)
    \/ GridIdle /\ \E data \in DataInputs : SetData(data)
    \/ GridIdle /\ \E ya \in AxisInputs, xa \in AxisInputs : SetAxes(ya, xa)
    \/ GridIdle /\ \E y \in Coords, x \in Coords : At(y, x)
    \/ GridIdle /\ \E ysl \in Slices, xsl \in Slices : Range(ysl, xsl)
    \/ GridIdle /\ \E y_lim \in GivenSlices, x_lim \in GivenSlices : crop(y_lim, x_lim)
    \/ GridIdle /\ \E y_scale \in CropScales, x_scale \in CropScales :
         crop_percent(y_scale, x_scale)
    \/ Return

Spec == Init /\ [][Next]_vars

(***************************************************************************)
(* Claims about Indexed2D (specification Spec)                             *)
(***************************************************************************)
\* the lowest index whose axis value is nearest to v
NearestLowest(axis, v) ==
    CHOOSE i \in 1..Len(axis) :
        \A j \in 1..Len(axis) :
            \/ Abs(axis[i] - v) < Abs(axis[j] - v)
            \/ Abs(axis[i] - v) = Abs(axis[j] - v) /\ i <= j

\* row count = len(y_axis) and column count = len(x_axis)
DimsMatch(data, y_axis, x_axis) ==
    /\ Len(data) = Len(y_axis)
    /\ \A i \in 1..Len(data) : Len(data[i]) = Len(x_axis)

BothSet(g) == g.exists /\ g.is_data_set /\ g.are_axes_set

InExtent(axis, b) == b.given => (PyMin(axis) <= b.v /\ b.v <= PyMax(axis))

\* the index range the claims give for a slice
LoIndex(axis, sl) == IF sl.start.given THEN NearestLowest(axis, sl.start.v) ELSE 1
HiIndex(axis, sl) == IF sl.stop.given THEN NearestLowest(axis, sl.stop.v) ELSE Len(axis)

\* C1: on a grid with non-empty axes, at(y, x) returns the one cell
\* data[i][j] with i, j the lowest indices nearest to y and to x.
C1_AtReturnsNearestCell ==
    (call.op = "at" /\ BothSet(call.pre)
        /\ Len(call.pre.y_axis) > 0 /\ Len(call.pre.x_axis) > 0)
    => /\ result.status = "ok"
       /\ result.value = call.pre.data[NearestLowest(call.pre.y_axis, call.y)]
                                      [NearestLowest(call.pre.x_axis, call.x)]

\* C2 as claimed: every grid that exists, however it was constructed, has
\* row count = len(y_axis) and column count = len(x_axis).
C2_EveryGridHasMatchingDims ==
    grid.exists => DimsMatch(grid.data, grid.y_axis, grid.x_axis)

\* C2 as amended: a grid on which both data and axes have been set, and every
\* grid that range returns or crop stores, has row count = len(y_axis) and
\* column count = len(x_axis); a constructor call given both data and axes,
\* and a setter call on a grid whose other half is set, raises IndexError and
\* leaves no grid (the grid as it was) when the lengths do not match.
C2_DimsMatchOnceBothSet ==
    /\ BothSet(grid) => DimsMatch(grid.data, grid.y_axis, grid.x_axis)
    /\ (call.op = "range" /\ result.status = "ok")
       => /\ BothSet(result.grid)
          /\ DimsMatch(result.grid.data, result.grid.y_axis, result.grid.x_axis)
    /\ (call.op = "init" /\ call.hasData /\ call.hasAxes
          /\ ~DimsMatch(call.data, call.y_axis, call.x_axis))
       => (~grid.exists /\ result.status = "IndexError")
    /\ (call.op = "set_data" /\ call.pre.are_axes_set
          /\ ~DimsMatch(call.data, call.pre.y_axis, call.pre.x_axis))
       => (grid = call.pre /\ result.status = "IndexError")
    /\ (call.op = "set_axes" /\ call.pre.is_data_set
          /\ ~DimsMatch(call.pre.data, call.y_axis, call.x_axis))
       => (grid = call.pre /\ result.status = "IndexError")

\* a data-only grid completed by set_axes and then cropped to a smaller grid
C2_Witness ==
    /\ call.op = "crop" /\ result.status = "ok"
    /\ BothSet(grid) /\ grid # call.pre
    /\ Len(grid.y_axis) > 0 /\ Len(grid.x_axis) > 0

C4_FullExtentRangeIsIdentity ==
    (call.op = "range" /\ BothSet(call.pre)
        /\ Len(call.pre.y_axis) > 0 /\ Len(call.pre.x_axis) > 0
        /\ call.ysl = [start |-> Given(PyMin(call.pre.y_axis)),
                       stop |-> Given(PyMax(call.pre.y_axis))]
        /\ call.xsl = [start |-> Given(PyMin(call.pre.x_axis)),
                       stop |-> Given(PyMax(call.pre.x_axis))])
    => /\ result.status = "ok"
       /\ result.grid.data = call.pre.data
       /\ result.grid.y_axis = call.pre.y_axis
       /\ result.grid.x_axis = call.pre.x_axis

\* C5: range and crop raise IndexError, and hand back no grid, whenever a
\* given bound on either axis is below the least or above the greatest value
\* of that axis; crop then leaves Secondary.sec as it was.
OutOfExtent(axis, b) == b.given /\ (b.v < PyMin(axis) \/ b.v > PyMax(axis))

C5_OutOfRangeBoundRaises ==
    (call.op \in {"range", "crop"}
        /\ Len(call.pre.y_axis) > 0 /\ Len(call.pre.x_axis) > 0
        /\ \/ OutOfExtent(call.pre.y_axis, call.ysl.start)
           \/ OutOfExtent(call.pre.y_axis, call.ysl.stop)
           \/ OutOfExtent(call.pre.x_axis, call.xsl.start)
           \/ OutOfExtent(call.pre.x_axis, call.xsl.stop))
    => /\ result.status = "IndexError"
       /\ result.grid = NoGrid
       /\ grid = call.pre

\* crop with only its last bound, the upper x limit, outside the axis
C5_Witness ==
    /\ call.op = "crop" /\ result.status = "IndexError"
    /\ ~OutOfExtent(call.pre.y_axis, call.ysl.start)
    /\ ~OutOfExtent(call.pre.y_axis, call.ysl.stop)
    /\ ~OutOfExtent(call.pre.x_axis, call.xsl.start)
    /\ call.xsl.stop.v > PyMax(call.pre.x_axis)
    /\ grid = call.pre


\* C15: crop_percent called with a scale outside (0, 1], that is 0, a
\* negative scale or a scale above 1, is rejected and leaves the grid of the
\* Secondary as it was.
C15_ScaleOutsideUnitIntervalIsRejected ==
    (call.op = "crop_percent"
        /\ (~(0 < call.y /\ call.y <= 1) \/ ~(0 < call.x /\ call.x <= 1))) =>
        (result.status # "ok" /\ grid = call.pre)

(***************************************************************************)
(* arr_normalize_axis called on its own (specification SpecNorm)           *)
(***************************************************************************)
NormLen == 2
NormCells == {0 - 1, 0, 1}
MaskWeights == {R(0), R(1)}

\* the arrays of r rows and c columns
NormArrays(r, c) == [1..r -> [1..c -> {R(v) : v \in NormCells}]]

\* mask=None, or one weight for every cell of a line that is rescaled
NormMasks(arr, axis) ==
    IF axis = "None" THEN {NoMask}
    ELSE {NoMask} \cup
         {Given(m) : m \in [1..(IF axis = "y" THEN Len(arr[1]) ELSE Len(arr))
                               -> MaskWeights]}

\* a call on an array of up to NormLen rows and columns and up to
\* 2 * NormLen cells
InitNorm ==
    /\ grid = NoGrid
    /\ dynamic = DynOff
    /\ search = SearchOff
    /\ call = Idle
    /\ result = NoResult
    /\ \E r \in 1..NormLen :
         \E c \in {k \in 1..NormLen : r * k <= 2 * NormLen} :
         \E arr \in NormArrays(r, c), axis \in {"None", "y", "x"} :
           \E mask \in NormMasks(arr, axis) :
             norm = [pc |-> "ready", input |-> arr, axis |-> axis, mask |-> mask,
                     arr |-> arr, out |-> << >>]
    /\ spectrum = SecOff
    /\ sweep = SweepOff

\* arr_normalize_axis(arr, axis, mask): the rows are rescaled in place and
\* the array that comes back is the caller's array
Normalize ==
    /\ norm.pc = "ready"
    /\ LET out == arr_normalize_axis(norm.arr, norm.axis, norm.mask)
       IN  norm' = [norm EXCEPT !.pc = "done", !.arr = out, !.out = out]
    /\ UNCHANGED <<grid, call, result, spectrum, sweep, dynamic, search>>

NextNorm == Normalize

SpecNorm == InitNorm /\ [][NextNorm]_vars

\* the lines that axis names: the rows for 'y', the columns for 'x'
LinesOf(arr, axis) == IF axis = "x" THEN Transpose(arr) ELSE arr
\* the mask in use: an omitted mask weighs every cell with 1
MaskOf(n) ==
    IF n.mask.given THEN n.mask.v
    ELSE [j \in 1..Len(LinesOf(n.input, n.axis)[1]) |-> R(1)]
\* the mean over the lines of the mask-weighted means of the lines
MeanOfLineMeans(arr, axis, mask) ==
    LET lines == LinesOf(arr, axis)
    IN  RDiv(RSum([i \in 1..Len(lines) |-> MaskedMean(mask, lines[i])]),
             R(Len(lines)))
NoZeroLineMean(arr, axis, mask) ==
    \A i \in 1..Len(LinesOf(arr, axis)) :
        MaskedMean(mask, LinesOf(arr, axis)[i]) # R(0)
LineMeansAllEqual(n) ==
    \A i \in 1..Len(LinesOf(n.out, n.axis)) :
        REq(MaskedMean(MaskOf(n), LinesOf(n.out, n.axis)[i]),
            MeanOfLineMeans(n.input, n.axis, MaskOf(n)))

\* C6 as claimed: after arr_normalize_axis along 'y' ('x'), every row
\* (column) has the same mask-weighted mean, the average of the weighted
\* row (column) means of the input, for every input array, one with a row
\* of weighted mean zero included.
C6_LineMeansEqualForEveryInput ==
    (norm.pc = "done" /\ norm.axis \in {"y", "x"}) => LineMeansAllEqual(norm)

\* C6 amended: the same, for every input array in which no row (column)
\* has a mask-weighted mean of zero.
C6_LineMeansEqualWithoutZeroMean ==
    (norm.pc = "done" /\ norm.axis \in {"y", "x"}
        /\ NoZeroLineMean(norm.input, norm.axis, MaskOf(norm)))
    => LineMeansAllEqual(norm)

\* C6 witness: a normalisation under a mask that is not uniform, of an
\* array whose lines had different non-zero weighted means, has returned.
C6_Witness ==
    /\ norm.pc = "done" /\ norm.axis \in {"y", "x"}
    /\ norm.mask.given /\ norm.mask.v # [j \in 1..Len(norm.mask.v) |-> R(1)]
    /\ NoZeroLineMean(norm.input, norm.axis, MaskOf(norm))
    /\ norm.out # norm.input
    /\ LineMeansAllEqual(norm)


(***************************************************************************)
(* Secondary.__init__ and get_secondary_spectrum (specification SpecSec)   *)
(***************************************************************************)
SecRows == 4
SecCols == 2
MaxLevel == 1

SecCells == (1..SecRows) \X (1..SecCols)
MirrorCell(c) == <<Mirror(c[1], SecRows), Mirror(c[2], SecCols)>>
\* of a cell and its mirror image, the one that comes first
Canon(c) ==
    LET m == MirrorCell(c)
    IN  IF m[1] < c[1] \/ (m[1] = c[1] /\ m[2] < c[2]) THEN m ELSE c
CanonCells == {c \in SecCells : Canon(c) = c}
InCentreRow(c) == c[1] = Centre(SecRows)

\* the power grids: the row of zero conjugate frequency holds zeros or the
\* lowest level, no other row holds a zero, and the peak lies outside that row
PowerLevels ==
    {f \in [CanonCells -> ZeroPower..MaxLevel] :
        /\ \A c \in CanonCells : f[c] = ZeroPower => InCentreRow(c)
        /\ \A c \in CanonCells : InCentreRow(c) => f[c] <= 0
        /\ \E c \in CanonCells :
              /\ ~InCentreRow(c)
              /\ \A e \in CanonCells : f[e] <= f[c]
              /\ \A e \in CanonCells : InCentreRow(e) => f[e] < f[c]}
PowerGrid(f) == [i \in 1..SecRows |-> [j \in 1..SecCols |-> f[Canon(<<i, j>>)]]]

SecOptions ==
    [subtract_secondary_background : BOOLEAN, normalize_frequency : BOOLEAN,
     normalize_time : BOOLEAN, cut_off_bottom : BOOLEAN]
SecDefaults ==
    [subtract_secondary_background |-> TRUE, normalize_frequency |-> TRUE,
     normalize_time |-> TRUE, cut_off_bottom |-> TRUE]
\* the scales: a quarter, a half, the whole, and the double
SecScales == {Frac(1, 4), Frac(1, 2), R(1), R(2)}
NoRun == [status |-> "none", logged |-> << >>, normalized |-> << >>,
          background |-> NoBackground, secondary |-> << >>]

InitSec ==
    /\ grid = NoGrid
    /\ dynamic = DynOff
    /\ search = SearchOff
    /\ call = Idle
    /\ result = NoResult
    /\ norm = NormOff
    /\ \E f \in PowerLevels :
         spectrum = [pc |-> "ready", power |-> PowerGrid(f), opts |-> SecDefaults,
                     scales |-> <<R(1), R(1)>>, run |-> NoRun, sec |-> << >>]
    /\ sweep = SweepOff

\* Secondary.__init__: get_secondary_spectrum() with its defaults; what it
\* returns becomes the data of self.sec
ConstructSecondary ==
    /\ spectrum.pc = "ready"
    /\ LET run == get_secondary_spectrum(spectrum.power, SecDefaults)
       IN  spectrum' = [spectrum EXCEPT
                           !.pc = IF run.status = "ok" THEN "constructed" ELSE "raised",
                           !.opts = SecDefaults,
                           !.run = run,
                           !.sec = run.secondary]
    /\ UNCHANGED <<grid, call, result, norm, sweep, dynamic, search>>

\* get_secondary_spectrum called with options and scales of the caller's
\* choice; nothing is stored
GetSecondarySpectrum(opts, xscale, yscale) ==
    /\ spectrum.pc = "ready"
    /\ \E run \in {get_secondary_spectrum(spectrum.power, opts)} :
         spectrum' = [spectrum EXCEPT
                         !.pc = IF run.status = "ok" THEN "returned" ELSE "raised",
                         !.opts = opts,
                         !.scales = <<xscale, yscale>>,
                         !.run = IF run.status = "ok"
                                 THEN [run EXCEPT !.secondary =
                                          CropScaled(run.background.grid,
                                                     opts.cut_off_bottom,
                                                     xscale, yscale)]
                                 ELSE run]
    /\ UNCHANGED <<grid, call, result, norm, sweep, dynamic, search>>

NextSec ==
    \/ ConstructSecondary
    \/ spectrum.pc = "ready" /\ \E opts \in SecOptions, xscale \in SecScales,
                                   yscale \in SecScales :
          GetSecondarySpectrum(opts, xscale, yscale)

SpecSec == InitSec /\ [][NextSec]_vars

\* the largest cell of a grid is exactly 0
MaxIsZero(g) ==
    /\ g # << >>
    /\ \E c \in CellsOf(g) : g[c[1]][c[2]] = R(0)
    /\ \A c \in CellsOf(g) : ~RLt(R(0), g[c[1]][c[2]]) /\ ~IsNaN(g[c[1]][c[2]])

TrueLowerEdge(bg) ==
    RAdd(bg.lo, RDiv(RMul(R(bg.xVal), RSub(bg.hi, bg.lo)), R(nbins)))

\* C8: after the background step every cell is at least L + 3 dB, L the
\* lower edge of the most populated histogram bin.
C8_CellsAtLeastFloorOfTrueBinEdge ==
    (spectrum.pc \in {"constructed", "returned"}
        /\ spectrum.opts.subtract_secondary_background)
    => \A c \in CellsOf(spectrum.run.background.grid) :
          ~RLt(spectrum.run.background.grid[c[1]][c[2]],
               RAdd(TrueLowerEdge(spectrum.run.background), R(3)))


\* the rows and columns that the crop step of the last call kept
KeptBySecondary ==
    crop_bounds(SecRows, SecCols, spectrum.opts.cut_off_bottom,
                spectrum.scales[1], spectrum.scales[2])

\* a window of the fraction scale of n positions
IsFractionOf(window, scale, n) == Len(window) * scale.d = scale.n * n

\* C24: for xscale and yscale in (0, 1] the crop step keeps a window of
\* columns around the middle column that is the fraction xscale of the
\* columns wide and, with cut_off_bottom on, rows of one half only, the
\* fraction yscale of that half that lies next to the middle row; with both
\* scales 1 it keeps every column and exactly one half of the rows
C24_CropKeepsCentredFraction ==
    (/\ spectrum.pc = "returned"
     /\ spectrum.opts.cut_off_bottom
     /\ \A k \in 1..2 : RLt(R(0), spectrum.scales[k]) /\ ~RLt(R(1), spectrum.scales[k])) =>
        LET kept == KeptBySecondary
            half == SecRows \div 2
        IN  /\ Len(spectrum.run.secondary) = Len(kept.rows)
            /\ \A i \in 1..Len(kept.rows) :
                   Len(spectrum.run.secondary[i]) = Len(kept.cols)
            /\ IsFractionOf(kept.cols, spectrum.scales[1], SecCols)
            /\ kept.cols # << >> => \E j \in 1..Len(kept.cols) :
                                        kept.cols[j] = Centre(SecCols)
            /\ IsFractionOf(kept.rows, spectrum.scales[2], half)
            /\ \A i \in 1..Len(kept.rows) :
                   kept.rows[i] = half - Len(kept.rows) + i

(***************************************************************************)
(* Secondary.make_1D_by_quadratic and its worker pool (specification       *)
(* SpecSweep): one Secondary, the same sweep run twice, first in a pool of *)
(* one worker and then in a pool of several.                               *)
(***************************************************************************)
MaxRoot == 2
MaxEtas == 2
MaxWorkers == 2

\* the curvatures 1/k^2
SweepEtas == {Frac(1, k * k) : k \in 1..MaxRoot}
NoSigma == [given |-> FALSE, v |-> << >>]
SweepSigmas == {NoSigma, Given(<<R(1), R(1)>>)}
\* the grid of a Secondary: delays up to 0, fringe frequencies from 0
SweepGrids ==
    {[data |-> data, y_axis |-> <<0 - 1, 0>>, x_axis |-> <<0, 1>>] :
        data \in [1..2 -> {<<R(0 - 1), R(0)>>, <<R(0), R(0 - 1)>>}]}

\* a grid made for a test: all the power (0 dB) in the one cell that lies on
\* the parabola y = ArcEta x^2, the floor (-1 dB) elsewhere; with the
\* curvatures 1/k^2 only the parabola y = x^2 / 4 passes through a cell
ArcEta == Frac(3, 4)
ArcGrid == [data |-> << <<R(0 - 1), R(0 - 1)>>, <<R(0), R(0 - 1)>> >>,
            y_axis |-> <<1, 3>>, x_axis |-> <<2, 3>>]
\* sigma=[1e-3, 1e-3]: a kernel a thousandth of a pixel wide
NarrowSigma == Given(<<Frac(1, 1000), Frac(1, 1000)>>)
\* the grid and the sigma of a sweep
SweepInputs ==
    {<<sec, sigma>> : sec \in SweepGrids, sigma \in SweepSigmas}
        \cup {<<ArcGrid, NarrowSigma>>}

\* a result slot of pool.map that no worker has filled
Pending == [eta |-> NaN, power |-> NaN]

\* the slot of pool.map's result list that receives the result of a task
ResultSlotOfWorker(task, worker) == worker
ResultSlot(task, worker) == task

InitSweep ==
    /\ grid = NoGrid
    /\ dynamic = DynOff
    /\ search = SearchOff
    /\ call = Idle
    /\ result = NoResult
    /\ norm = NormOff
    /\ spectrum = SecOff
    /\ \E input \in SweepInputs, a \in SweepEtas, b \in SweepEtas,
          num_etas \in 0..MaxEtas,
          first \in 0..1, n \in 2..MaxWorkers :
         sweep = [pc |-> "idle", sec |-> input[1], eta_range |-> <<a, b>>,
                  num_etas |-> num_etas, sigma |-> input[2],
                  num_threads |-> <<first, n>>, run |-> 1,
                  etas |-> << >>, queue |-> << >>, busy |-> << >>,
                  output |-> << >>, log |-> << >>, logs |-> << >>, rets |-> << >>,
                  made_1D |-> FALSE, stored |-> << >>]

\* make_1D_by_quadratic up to pool.map: num_threads 0 becomes 1, the etas
\* are listed, the pool is started and every eta is queued as a task
StartSweep ==
    /\ sweep.pc = "idle" /\ sweep.run <= Len(sweep.num_threads)
    /\ \E etas \in {give_eta_list(sweep.eta_range, sweep.num_etas)} :
         sweep' = [sweep EXCEPT
                      !.pc = "running",
                      !.etas = etas,
                      !.queue = [k \in 1..Len(etas) |-> k],
                      !.busy = [w \in 1..(IF sweep.num_threads[sweep.run] = 0 THEN 1
                                          ELSE sweep.num_threads[sweep.run]) |-> 0],
                      !.output = [k \in 1..Len(etas) |-> Pending],
                      !.log = << >>]
    /\ UNCHANGED <<grid, call, result, norm, spectrum, dynamic, search>>

\* an idle worker takes the task at the head of the queue
Take(w) ==
    /\ sweep.pc = "running" /\ w \in 1..Len(sweep.busy)
    /\ sweep.busy[w] = 0 /\ sweep.queue # << >>
    /\ sweep' = [sweep EXCEPT !.busy[w] = Head(sweep.queue),
                              !.queue = Tail(sweep.queue)]
    /\ UNCHANGED <<grid, call, result, norm, spectrum, dynamic, search>>

\* a worker finishes crunchy for its eta; the result goes to the slot of
\* the task
Finish(w) ==
    /\ sweep.pc = "running" /\ w \in 1..Len(sweep.busy)
    /\ sweep.busy[w] # 0
    /\ \E item \in {crunchy(sweep.etas[sweep.busy[w]], sweep.sec, sweep.sigma)} :
         sweep' = [sweep EXCEPT
                      !.output[ResultSlot(sweep.busy[w], w)] = item,
                      !.busy[w] = 0,
                      !.log = Append(@, [task |-> sweep.busy[w], worker |-> w])]
    /\ UNCHANGED <<grid, call, result, norm, spectrum, dynamic, search>>

\* pool.map returns once every task is done; the rest of
\* make_1D_by_quadratic: the dictionary, its sorting, the stored profile
Collect ==
    /\ sweep.pc = "running" /\ sweep.queue = << >>
    /\ \A w \in 1..Len(sweep.busy) : sweep.busy[w] = 0
    /\ \E ret \in {sort_dict_by_key(DictOf(sweep.output))} :
         sweep' = [sweep EXCEPT
                      !.pc = "idle",
                      !.run = @ + 1,
                      !.rets = Append(@, ret),
                      !.logs = Append(@, sweep.log),
                      !.made_1D = TRUE,
                      !.stored = ret]
    /\ UNCHANGED <<grid, call, result, norm, spectrum, dynamic, search>>

NextSweep ==
    \/ StartSweep
    \/ sweep.pc = "running" /\ \E w \in 1..MaxWorkers : Take(w)
    \/ sweep.pc = "running" /\ \E w \in 1..MaxWorkers : Finish(w)
    \/ Collect

SpecSweep == InitSweep /\ [][NextSweep]_vars

ItemsOf(ret) == {ret[k] : k \in 1..Len(ret)}

NearestSampled(ret, eta0) ==
    {k \in 1..Len(ret) :
        \A l \in 1..Len(ret) :
            ~RLt(RAbs(RSub(ret[l].eta, eta0)), RAbs(RSub(ret[k].eta, eta0)))}

\* the maximum of the powers of a profile is taken at item k
IsMaximum(ret, k) ==
    /\ IsFinite(ret[k].power)
    /\ \A l \in 1..Len(ret) :
           IsNaN(ret[l].power) \/ ~RLt(ret[k].power, ret[l].power)

DynLen == 2
outliers_sigma == 7

\* a header card: missing, holding text, or holding a number
Absent == [kind |-> "absent", v |-> 0]
Text == [kind |-> "text", v |-> 0]
Num(v) == [kind |-> "num", v |-> v]

\* float(header[key]): KeyError for a missing key, ValueError for text
HeaderFloat(card) ==
    IF card.kind = "absent" THEN [status |-> "KeyError", v |-> R(0)]
    ELSE IF card.kind = "text" THEN [status |-> "ValueError", v |-> R(0)]
    ELSE [status |-> "ok", v |-> R(card.v)]

\* np.rot90(data): a quarter turn counterclockwise, the last column becomes
\* the first row
rot90(data) ==
    [i \in 1..Len(data[1]) |->
        [j \in 1..Len(data) |-> data[j][Len(data[1]) + 1 - i]]]

\* the cells of an array, row after row
Flatten(arr) ==
    [k \in 1..(Len(arr) * Len(arr[1])) |->
        arr[((k - 1) \div Len(arr[1])) + 1][((k - 1) % Len(arr[1])) + 1]]

\* dynamic >= dyn_median + outliers_sigma * std(dynamic - dyn_median), the
\* standard deviation taken by its square
IsOutlier(cell, dyn_median, variance) ==
    LET d == RSub(cell, dyn_median)
    IN  /\ ~RLt(d, R(0))
        /\ ~RLt(RMul(d, d), RMul(R(outliers_sigma * outliers_sigma), variance))

\* get_dynamic_spectrum(data) with its defaults: normalize_frequency off,
\* normalize_time on
get_dynamic_spectrum(data, rotate) ==
    LET outs ==
        UNION {UNION {
            {arr_normalize_axis(
                 [i \in 1..Len(dyn) |->
                     [j \in 1..Len(dyn[i]) |->
                         IF IsOutlier(dyn[i][j], dyn_median, variance)
                         THEN dyn_median ELSE dyn[i][j]]],
                 "x", NoMask) :
                variance \in {NpMean([k \in 1..Len(Flatten(dyn)) |->
                                 RMul(RSub(Flatten(dyn)[k], dyn_median),
                                      RSub(Flatten(dyn)[k], dyn_median))])}} :
                dyn_median \in {NpMean(Flatten(dyn))}} :
                dyn \in {IF rotate THEN rot90(data) ELSE data}}
    IN  CHOOSE out \in outs : TRUE

\* get_dyn_axes: T_INT, NAXIS1, NAXIS2, FREQ and BW are read in this order
get_dyn_axes(hdu_header, rotate) ==
    LET t_int == HeaderFloat(hdu_header.T_INT)
        nsubs == IF rotate THEN hdu_header.NAXIS2 ELSE hdu_header.NAXIS1
        freq == HeaderFloat(hdu_header.FREQ)
        bw == HeaderFloat(hdu_header.BW)
        nchans == IF rotate THEN hdu_header.NAXIS1 ELSE hdu_header.NAXIS2
        half == RDiv(RAbs(bw.v), R(2))
    IN  IF t_int.status # "ok" THEN [status |-> t_int.status, axes |-> << >>]
        ELSE IF freq.status # "ok" THEN [status |-> freq.status, axes |-> << >>]
        ELSE IF bw.status # "ok" THEN [status |-> bw.status, axes |-> << >>]
        ELSE [status |-> "ok",
              axes |-> << Linspace(RSub(freq.v, half), RAdd(freq.v, half), nchans),
                          Linspace(R(0), t_int.v, nsubs) >>]

NoDynamic == [exists |-> FALSE, filename |-> "", rotate |-> FALSE,
              dyn |-> << >>, dyni |-> NoGrid]

\* Dynamic(data, db_header, filename, rotate): filename None or '' falls
\* back on db_header['filename']; rotate left out is False
Dynamic_init(hdu, db_header, filename, rotate) ==
    LET flag == IF rotate.given THEN rotate.v ELSE FALSE
    IN  IF ~filename.given /\ db_header.filename.kind = "absent"
        THEN [status |-> "KeyError", obj |-> NoDynamic]
        ELSE LET built ==
                 UNION {
                     {IF axes.status # "ok"
                      THEN [status |-> axes.status, obj |-> NoDynamic]
                      ELSE LET dyni == Indexed2D(Given(dyn), Given(axes.axes))
                           IN  IF dyni.status # "ok"
                               THEN [status |-> dyni.status, obj |-> NoDynamic]
                               ELSE [status |-> "ok",
                                     obj |-> [exists |-> TRUE,
                                              filename |-> IF filename.given
                                                           THEN filename.v
                                                           ELSE "db",
                                              rotate |-> flag,
                                              dyn |-> dyn,
                                              dyni |-> dyni.grid]] :
                         axes \in {get_dyn_axes(hdu.header, flag)}} :
                         dyn \in {get_dynamic_spectrum(hdu.data, flag)}}
             IN  CHOOSE b \in built : TRUE

\* the raw matrices: r rows of c cells, growing along the rows and the
\* columns, all equal, or growing from a first cell that is 0
RawData(r, c) ==
    {[i \in 1..r |-> [j \in 1..c |-> R(i + j)]],
     [i \in 1..r |-> [j \in 1..c |-> R(1)]],
     [i \in 1..r |-> [j \in 1..c |-> IF i = 1 /\ j = 1 THEN R(0) ELSE R(i + j)]]}

Cards(v) == {Absent, Text, Num(v)}
\* the header keywords that the database writes and Dynamic does not read
UnreadKeys == {"NCHAN", "NSUB", "SOURCE"}
NoFilename == [given |-> FALSE, v |-> ""]
NoRotate == [given |-> FALSE, v |-> FALSE]

InitDyn ==
    /\ grid = NoGrid
    /\ call = Idle
    /\ result = NoResult
    /\ norm = NormOff
    /\ spectrum = SecOff
    /\ sweep = SweepOff
    /\ search = SearchOff
    /\ \E r \in 1..DynLen, c \in 1..DynLen :
       \E data \in RawData(r, c),
          t_int \in Cards(2), freq \in Cards(3), bw \in Cards(0 - 2),
          present \in SUBSET UnreadKeys,
          dbname \in {Absent, Text},
          filename \in {NoFilename, Given("arg")},
          rotate \in {NoRotate, Given(FALSE), Given(TRUE)} :
         dynamic = [pc |-> "ready",
                    hdu |-> [data |-> data,
                             header |-> [T_INT |-> t_int, FREQ |-> freq, BW |-> bw,
                                         NAXIS1 |-> c, NAXIS2 |-> r,
                                         present |-> present]],
                    db_header |-> [filename |-> dbname],
                    filename |-> filename,
                    rotate |-> rotate,
                    status |-> "none",
                    obj |-> NoDynamic]

\* x = Dynamic(data, db_header, filename, rotate)
ConstructDynamic ==
    /\ dynamic.pc = "ready"
    /\ \E out \in {Dynamic_init(dynamic.hdu, dynamic.db_header,
                                dynamic.filename, dynamic.rotate)} :
         dynamic' = [dynamic EXCEPT
                        !.pc = IF out.status = "ok" THEN "constructed" ELSE "raised",
                        !.status = out.status,
                        !.obj = out.obj]
    /\ UNCHANGED <<grid, call, result, norm, spectrum, sweep, search>>

NextDyn == ConstructDynamic

SpecDyn == InitDyn /\ [][NextDyn]_vars

\* a required field is missing: a card that was left out, no filename in
\* either place, no rotate argument
MetadataAbsent ==
    \/ dynamic.hdu.header.T_INT.kind = "absent"
    \/ dynamic.hdu.header.FREQ.kind = "absent"
    \/ dynamic.hdu.header.BW.kind = "absent"
    \/ dynamic.hdu.header.present # UnreadKeys
    \/ ~dynamic.filename.given /\ dynamic.db_header.filename.kind = "absent"
    \/ ~dynamic.rotate.given
\* a numeric field holds text
MetadataNotNumeric ==
    \/ dynamic.hdu.header.T_INT.kind = "text"
    \/ dynamic.hdu.header.FREQ.kind = "text"
    \/ dynamic.hdu.header.BW.kind = "text"

\* C17: when a required metadata field (center frequency, bandwidth,
\* integration time, channel count, subintegration count, rotate flag,
\* source name, filename) is absent, or a numeric one is not numeric, the
\* construction of a Dynamic fails and yields no object.
C17_MissingMetadataFailsConstruction ==
    (dynamic.pc # "ready" /\ (MetadataAbsent \/ MetadataNotNumeric)) =>
        (dynamic.pc = "raised" /\ ~dynamic.obj.exists)

\* C22: with the rotate flag set the matrix that get_dynamic_spectrum
\* works on is the transpose of the raw matrix, and without it the raw
\* matrix itself; so the dynamic spectrum of a rotated raw matrix is the
\* one that the transposed raw matrix has without the flag
C22_RotateIsTranspose ==
    dynamic.pc = "constructed" =>
        dynamic.obj.dyn =
            get_dynamic_spectrum(IF dynamic.obj.rotate
                                 THEN Transpose(dynamic.hdu.data)
                                 ELSE dynamic.hdu.data, FALSE)

\* a cell that is 0 or not finite
ZeroOrNotFinite(cell) == cell = R(0) \/ ~IsFinite(cell)

\* C23: the raw cells that are 0 or not finite are given the median of the
\* other raw cells, so that the dynamic spectrum of a raw matrix with a
\* finite cell that is not 0 has no cell that is 0 or not finite
C23_NoZeroCellInDynamicSpectrum ==
    (/\ dynamic.pc = "constructed"
     /\ \E k \in 1..Len(Flatten(dynamic.hdu.data)) :
           ~ZeroOrNotFinite(Flatten(dynamic.hdu.data)[k])) =>
        \A k \in 1..Len(Flatten(dynamic.obj.dyn)) :
            ~ZeroOrNotFinite(Flatten(dynamic.obj.dyn)[k])

(***************************************************************************)
(* The three searches of one Secondary and their worker functions          *)
(* (specification SpecSearch).  An item (key, power) of a result is        *)
(* written [eta |-> key, power |-> power] for every search: the key is an  *)
(* eta, a point (y, x) or an offset.  A float count handed to np.linspace  *)
(* is cut to a whole number, as the numpy this code was written for does.  *)
(***************************************************************************)
\* weight_function2(y, x, py, px, sigma), the square root left out as in
\* weight_function
weight_function2(y, x, py, px, sigma) ==
    LET ret_y == gaussian(RSub(py, y), R(0), sigma[1])
        ret_x == gaussian(RSub(px, x), R(0), sigma[2])
        ret == RMul(ret_x, ret_y)
    IN  IF RLt(ret, WeightCut) THEN None ELSE Some(ret)

\* weight_function3(eta, orig_y, orig_x, py, px, sigma)
weight_function3(eta, orig_y, orig_x, py, px, sigma) ==
    LET x == closest_point_on_the_parabola(eta, px, py)
        y == RMul(eta, RMul(x, x))
        dist_from_origin == RAdd(RMul(orig_x, orig_x), RMul(orig_y, orig_y))
        ret_y == gaussian(RSub(py, y), R(0), sigma[1])
        ret_x == gaussian(RSub(px, x), R(0), sigma[2])
        ret == RMul(dist_from_origin, RMul(ret_x, ret_y))
    IN  IF RLt(ret, WeightCut) THEN None ELSE Some(ret)

\* a worker function reads y_axis[1] and x_axis[1]
ShortAxes(sec) == Len(sec.y_axis) < 2 \/ Len(sec.x_axis) < 2

\* [px_y, px_x] of crunchy2 and crunchy3
PixelSpacing(sec) ==
    << R(Abs(sec.y_axis[2] - sec.y_axis[1])), R(Abs(sec.x_axis[2] - sec.x_axis[1])) >>

\* sigma[0] < px_y and sigma[1] < px_x are raised to the pixel spacing
ClampSigma(sigma, px) ==
    << IF RLt(sigma[1], px[1]) THEN px[1] ELSE sigma[1],
       IF RLt(sigma[2], px[2]) THEN px[2] ELSE sigma[2] >>

\* the loop over the cells and p / pn, for the weights of the cells listed
\* row by row
ReduceCells(sec, weight) ==
    LET nx == Len(sec.x_axis)
        cell(k) == sec.data[((k - 1) \div nx) + 1][((k - 1) % nx) + 1]
        out == {RDiv(NanSumFiltered(
                         [k \in DOMAIN w |->
                             IF w[k].none THEN None
                             ELSE Some(RDiv(cell(k), RDiv(R(1), w[k].v)))]),
                     NanSumFiltered(
                         [k \in DOMAIN w |->
                             IF w[k].none THEN None
                             ELSE Some(RDiv(R(1), RDiv(R(1), w[k].v)))])) :
                   w \in {weight}}
    IN  CHOOSE power \in out : TRUE

\* crunchy2(pt_and_sigma, sec, hand) on axes of two entries or more
crunchy2(pt_and_sigma, sec) ==
    LET nx == Len(sec.x_axis)
        sigma == ClampSigma(pt_and_sigma.sigma, PixelSpacing(sec))
    IN  [eta |-> pt_and_sigma.pt,
         power |->
            ReduceCells(sec,
                [k \in 1..(Len(sec.y_axis) * nx) |->
                    weight_function2(R(sec.y_axis[((k - 1) \div nx) + 1]),
                                     R(sec.x_axis[((k - 1) % nx) + 1]),
                                     pt_and_sigma.pt[1], pt_and_sigma.pt[2],
                                     sigma)])]

\* crunchy3(offset, eta, sec) on axes of two entries or more; sigma is None
crunchy3(offset, eta, sec) ==
    LET nx == Len(sec.x_axis)
        sigma == ClampSigma(PixelSpacing(sec), PixelSpacing(sec))
        y(k) == R(sec.y_axis[((k - 1) \div nx) + 1])
        x(k) == R(sec.x_axis[((k - 1) % nx) + 1])
    IN  [eta |-> offset,
         power |->
            ReduceCells(sec,
                [k \in 1..(Len(sec.y_axis) * nx) |->
                    weight_function3(eta, y(k), x(k),
                                     RAdd(y(k), RMul(eta, RMul(offset, offset))),
                                     RSub(x(k), offset), sigma)])]

Reverse(s) == [i \in 1..Len(s) |-> s[Len(s) + 1 - i]]

\* [-x for x in list(reversed(temp))[:-1]] followed by temp
Mirrored(temp) ==
    [i \in 1..(IF Len(temp) = 0 THEN 0 ELSE Len(temp) - 1) |->
        RNeg(Reverse(temp)[i])] \o temp

Failed(err) == [status |-> err, tasks |-> << >>]

\* make_1D_by_quadratic before the pool: np.linspace refuses a negative
\* count
curvature_tasks(args) ==
    IF args.num < 0 THEN Failed("ValueError")
    ELSE [status |-> "ok", tasks |-> give_eta_list(args.eta_range, args.num)]

\* power_along_parabola before the pool: the sample points and their sigmas
along_parabola_tasks(sec, args) ==
    IF Len(sec.y_axis) = 0 THEN Failed("ValueError")
    ELSE IF args.eta = R(0) THEN Failed("ZeroDivisionError")
    ELSE IF Len(sec.x_axis) = 0 THEN Failed("ValueError")
    ELSE IF ShortAxes(sec) THEN Failed("IndexError")
    ELSE IF args.num < 0 THEN Failed("ValueError")
    ELSE
    LET bound == RAbs(R(PyMax(sec.x_axis)))
        root == RSqrt(RDiv(R(PyMax(sec.y_axis)), args.eta))
        max_x == IF RLt(bound, root) THEN bound ELSE root
        px == PixelSpacing(sec)
        lin == Linspace(R(0), R(1), args.num \div 2)
        x_list == Mirrored([i \in 1..Len(lin) |-> RMul(max_x, RMul(lin[i], lin[i]))])
        pts == [i \in 1..Len(x_list) |->
                   << RMul(args.eta, RMul(x_list[i], x_list[i])), x_list[i] >>]
        n == Len(pts)
        step(i, j) == << RAbs(RSub(pts[i][1], pts[j][1])),
                         RAbs(RSub(pts[i][2], pts[j][2])) >>
    IN  IF n = 1 THEN Failed("IndexError")
        ELSE [status |-> "ok",
              tasks |-> [i \in 1..n |->
                  [pt |-> pts[i],
                   sigma |-> IF i = 1 THEN step(2, 1)
                             ELSE IF i = n THEN step(n, n - 1)
                             ELSE << RMul(px[1], R(args.sigma_px)),
                                     RMul(px[2], R(args.sigma_px)) >>]]]

\* parabola_width before the pool: the offsets
width_tasks(args) ==
    IF args.num < 0 THEN Failed("ValueError")
    ELSE LET lin == Linspace(R(0), R(1), args.num \div 2)
         IN  [status |-> "ok",
              tasks |-> Mirrored([i \in 1..Len(lin) |->
                                     RMul(args.max_width, RSqrt(lin[i]))])]

\* the list handed to pool.map by each search
TasksOf(sec, args) ==
    IF args.kind = "make_1D_by_quadratic" THEN curvature_tasks(args)
    ELSE IF args.kind = "power_along_parabola" THEN along_parabola_tasks(sec, args)
    ELSE width_tasks(args)

\* one call of the worker function in a worker process
WorkerCall(sec, args, task) ==
    IF args.kind = "make_1D_by_quadratic"
    THEN IF ~args.sigma.given /\ ShortAxes(sec)
         THEN [status |-> "IndexError", item |-> Pending]
         ELSE [status |-> "ok", item |-> crunchy(task, sec, args.sigma)]
    ELSE IF ShortAxes(sec) THEN [status |-> "IndexError", item |-> Pending]
    ELSE IF args.kind = "power_along_parabola"
    THEN [status |-> "ok", item |-> crunchy2(task, sec)]
    ELSE [status |-> "ok", item |-> crunchy3(task, args.eta, sec)]

\* the items of the dictionary powers as Python lists them: each key where
\* it was first inserted, with the value it was given last
DictItems(output) ==
    LET firsts == {k \in 1..Len(output) :
                      \A l \in 1..(k - 1) : output[l].eta # output[k].eta}
        nth(i) == CHOOSE k \in firsts : Cardinality({l \in firsts : l < k}) = i - 1
        last(k) == CHOOSE l \in k..Len(output) :
                       /\ output[l].eta = output[k].eta
                       /\ \A m \in (l + 1)..Len(output) : output[m].eta # output[k].eta
    IN  [i \in 1..Cardinality(firsts) |-> output[last(nth(i))]]

\* what a search returns for the list that pool.map gave back
ProfileOf(kind, output) ==
    IF kind = "power_along_parabola" THEN DictItems(output)
    ELSE sort_dict_by_key(DictOf(output))

\* a profile that was never stored, and a stored one
Unset == [set |-> FALSE, v |-> << >>]
Stored(ret) == [set |-> TRUE, v |-> ret]

\* the search state of a Secondary after __init__, on the grid sec
NewSecondary(sec) ==
    [sec |-> sec, made_1D |-> FALSE, curvature |-> Unset,
     parabola_power |-> {}, width |-> Unset]

\* assignments that would also blank the grid the profile was made from
StoreProfileOverGrid(obj, args, ret) ==
    [obj EXCEPT !.width = Stored(ret),
                !.sec.data = [r \in DOMAIN @ |-> [c \in DOMAIN @[r] |-> R(0)]]]

\* assignments that would keep the profile of every search in the
\* attributes of the curvature sweep
StoreProfileInOneSlot(obj, args, ret) ==
    [obj EXCEPT !.made_1D = TRUE, !.curvature = Stored(ret)]

\* assignments that would store etas and powers and leave made_1D as it is
StoreProfileKeepsFlag(obj, args, ret) ==
    [obj EXCEPT !.curvature = Stored(ret)]

\* the assignments that end a search: made_1D, etas and powers;
\* parabola_power[eta]; offsets and offset_powers
StoreProfile(obj, args, ret) ==
    IF args.kind = "make_1D_by_quadratic"
    THEN [obj EXCEPT !.made_1D = TRUE, !.curvature = Stored(ret)]
    ELSE IF args.kind = "power_along_parabola"
    THEN [obj EXCEPT !.parabola_power =
              {e \in @ : e.eta # args.eta} \cup {[eta |-> args.eta, powers |-> ret]}]
    ELSE [obj EXCEPT !.width = Stored(ret)]

\* the attributes of the instance that exist: pickling the partial made
\* with sec=self for a task reads every one of them
InstanceFields(obj) ==
    {"sec", "hand", "made_1D", "parabola_power"}
        \cup (IF obj.curvature.set THEN {"etas", "powers"} ELSE {})
        \cup (IF obj.width.set THEN {"offsets", "offset_powers"} ELSE {})

\* the attributes a search reads in the calling thread before pool.map
ReadBeforeMap(kind) ==
    IF kind = "make_1D_by_quadratic" THEN {"hand"}
    ELSE IF kind = "power_along_parabola" THEN {"sec", "hand"}
    ELSE {}

\* the attributes a search reads in the calling thread after pool.map
ReadAfterMap(kind) ==
    IF kind = "power_along_parabola" THEN {"parabola_power"} ELSE {}

\* the attributes whose values a worker function uses
UsedByWorker == {"sec"}

\* the attributes a search assigns, or changes in place, after pool.map
WrittenBy(kind) ==
    IF kind = "make_1D_by_quadratic" THEN {"made_1D", "etas", "powers"}
    ELSE IF kind = "power_along_parabola" THEN {"parabola_power"}
    ELSE {"offsets", "offset_powers"}

\* pool.map that would leave out the tasks whose worker raised
map_outcome_lenient(failure, output) ==
    [status |-> "ok", output |-> SelectSeq(output, LAMBDA item : item # Pending)]

\* pool.map that would give back the results made before a worker raised
map_outcome_partial(failure, output) ==
    [status |-> "ok",
     output |-> SubSeq(output, 1,
                       Cardinality({k \in 1..Len(output) :
                                       \A l \in 1..k : output[l] # Pending}))]

\* what pool.map does once its tasks are done: it raises the exception of a
\* worker, or returns the list of the results
map_outcome(failure, output) ==
    IF failure # "" THEN [status |-> failure, output |-> << >>]
    ELSE [status |-> "ok", output |-> output]

\* the task that the pool hands out next: the tasks in the order of the
\* list, each one once
next_task(log, tasks) == Len(log) + 1

\* the worker function called for the tasks from the k-th on, one after
\* the other, up to the first exception
RECURSIVE AloneMap(_, _, _, _)
AloneMap(sec, args, tasks, k) ==
    IF k > Len(tasks) THEN [status |-> "ok", output |-> << >>]
    ELSE CHOOSE out \in
             {IF r.status # "ok" THEN [status |-> r.status, output |-> << >>]
              ELSE IF rest.status # "ok" THEN rest
              ELSE [status |-> "ok", output |-> <<r.item>> \o rest.output] :
                 r \in {WorkerCall(sec, args, tasks[k])},
                 rest \in {AloneMap(sec, args, tasks, k + 1)}} : TRUE

\* the end of a search for what pool.map gave
AloneEnd(kind, got) ==
    IF got.status # "ok" THEN [status |-> got.status, ret |-> << >>]
    ELSE [status |-> "ok", ret |-> ProfileOf(kind, got.output)]

\* a search run with nothing beside it
AloneRun(sec, args) ==
    CHOOSE ended \in
        {IF plan.status # "ok" THEN [status |-> plan.status, ret |-> << >>]
         ELSE CHOOSE e \in {AloneEnd(args.kind, got) :
                               got \in {AloneMap(sec, args, plan.tasks, 1)}} : TRUE :
            plan \in {TasksOf(sec, args)}} : TRUE

SearchThreads == 1..2

\* a grid cropped to two delays under 0, a grid cropped to one delay, and
\* a wider grid with a cell that is nan
TwoRowGrid == [data |-> << <<R(0), R(0 - 1), R(0)>>, <<R(0 - 1), R(0), R(0 - 1)>> >>,
               y_axis |-> <<0 - 2, 0 - 1>>, x_axis |-> <<0 - 1, 0, 1>>]
OneRowGrid == [data |-> << <<R(0), R(0 - 1), R(0 - 1)>> >>,
               y_axis |-> <<0>>, x_axis |-> <<0 - 1, 0, 1>>]
NanCellGrid == [data |-> << <<NaN, R(0 - 1), R(0), R(0 - 1)>>,
                           <<R(0 - 1), R(0), R(0 - 1), R(0)>> >>,
                y_axis |-> <<0 - 2, 0 - 1>>, x_axis |-> <<0 - 1, 0, 1, 2>>]
SearchGrids == {TwoRowGrid, OneRowGrid, NanCellGrid}

NotPassed == R(0)
Call(kind, eta_range, eta, num, sigma, max_width, num_threads) ==
    [kind |-> kind, eta_range |-> eta_range, eta |-> eta, num |-> num,
     sigma |-> sigma, sigma_px |-> 3, max_width |-> max_width,
     num_threads |-> num_threads]

PoolSizes == {0, MaxWorkers}
CurvatureCalls ==
    {Call("make_1D_by_quadratic", <<Frac(1, 4), R(1)>>, NotPassed, num, NoSigma,
          NotPassed, n) :
        num \in 1..MaxEtas, n \in PoolSizes}
AlongCalls ==
    {Call("power_along_parabola", << >>, eta, num, NoSigma, NotPassed, MaxWorkers) :
        eta \in {R(0 - 1), Frac(0 - 1, 4)}, num \in {2, 4}}
WidthCalls ==
    {Call("parabola_width", << >>, R(0 - 1), num, NoSigma, R(1), n) :
        num \in {0, 4}, n \in PoolSizes}
\* a sweep of one eta with a sigma of its own, which reads no second entry
\* of an axis
SigmaCall ==
    Call("make_1D_by_quadratic", <<Frac(1, 4), R(1)>>, NotPassed, 1,
         Given(<<R(1), R(1)>>), NotPassed, MaxWorkers)
\* a sweep of several etas over a range whose two ends are the same
FlatRangeCall ==
    Call("make_1D_by_quadratic", <<R(1), R(1)>>, NotPassed, MaxEtas, NoSigma,
         NotPassed, MaxWorkers)
SearchCalls ==
    CurvatureCalls \cup AlongCalls \cup {c \in WidthCalls : c.num_threads # 0}
        \cup {SigmaCall, FlatRangeCall}

\* the searches that follow another: a search of each kind in a pool of
\* several workers, and those that fail
SecondCalls ==
    {c \in SearchCalls :
        /\ c.num_threads = MaxWorkers
        /\ c.kind = "make_1D_by_quadratic" => c.num = MaxEtas
        /\ c.kind = "power_along_parabola" => c.eta = R(0 - 1)}

\* what each of the two threads calls: the first thread one search or two,
\* the second thread a width search beside a single search of the first
SearchScripts ==
    {<< <<c>>, << >> >> : c \in SearchCalls}
        \cup {<< <<c, d>>, << >> >> : c \in SearchCalls, d \in SecondCalls}
        \cup {<< <<c>>, <<d>> >> :
                 c \in SearchCalls, d \in {d \in WidthCalls : d.num_threads = 0}}

\* a thread that is in no search
Resting(at) ==
    [pc |-> "idle", at |-> at, args |-> << >>, tasks |-> << >>, output |-> << >>,
     log |-> << >>, busy |-> << >>, failure |-> "", reads |-> {}, beside |-> {},
     pre |-> << >>]

InitSearch ==
    /\ grid = NoGrid
    /\ dynamic = DynOff
    /\ sweep = SweepOff
    /\ call = Idle
    /\ result = NoResult
    /\ norm = NormOff
    /\ spectrum = SecOff
    /\ \E sec \in SearchGrids, script \in SearchScripts :
         /\ sec = NanCellGrid => (Len(script[1]) = 1 /\ script[2] = << >>)
         /\ search = [sec0 |-> sec, obj |-> NewSecondary(sec), script |-> script,
                      th |-> [t \in SearchThreads |-> Resting(1)],
                      pools |-> << >>, done |-> << >>]

\* the calls that are under way in the threads other than t
Beside(t) ==
    {<<u, search.th[u].at>> : u \in {u \in SearchThreads :
                                        u # t /\ search.th[u].pc = "mapping"}}

\* the record of a call that has ended
Ended(t, args, pre, status, ret, log, failure, reads, beside, post) ==
    [thread |-> t, failure |-> failure, at |-> search.th[t].at, args |-> args, pre |-> pre,
     status |-> status, ret |-> ret, log |-> log, reads |-> reads,
     writes |-> IF status = "ok" THEN WrittenBy(args.kind) ELSE {},
     beside |-> beside, post |-> post,
     alone |-> AloneRun(pre.sec, args)]

\* pool = mp.Pool(processes=num_threads) of the call at place at of the
\* script of thread t, num_threads 0 made 1 before
NewPool(t, at, num_threads) ==
    [thread |-> t, at |-> at,
     processes |-> IF num_threads = 0 THEN 1 ELSE num_threads,
     alive |-> TRUE]

\* a search up to pool.map: num_threads 0 becomes 1, the tasks are listed
\* and the pool is started; an exception on the way ends the call
StartSearch(t) ==
    /\ search.th[t].pc = "idle" /\ search.th[t].at <= Len(search.script[t])
    /\ \E args \in {search.script[t][search.th[t].at]} :
       \E plan \in {TasksOf(search.obj.sec, args)} :
         IF plan.status # "ok"
         THEN search' = [search EXCEPT
                  !.th[t] = Resting(search.th[t].at + 1),
                  !.done = Append(@, Ended(t, args, search.obj, plan.status, << >>,
                                           << >>, "", ReadBeforeMap(args.kind),
                                           Beside(t), search.obj))]
         ELSE search' = [search EXCEPT
                  !.th = [u \in SearchThreads |->
                      IF u = t
                      THEN [pc |-> "mapping", at |-> search.th[t].at, args |-> args,
                            tasks |-> plan.tasks,
                            output |-> [k \in 1..Len(plan.tasks) |-> Pending],
                            log |-> << >>,
                            busy |-> [w \in 1..(IF args.num_threads = 0 THEN 1
                                                ELSE args.num_threads) |-> 0],
                            failure |-> "", reads |-> ReadBeforeMap(args.kind),
                            beside |-> Beside(t), pre |-> search.obj]
                      ELSE IF search.th[u].pc = "mapping"
                      THEN [search.th[u] EXCEPT !.beside = @ \cup {<<t, search.th[t].at>>}]
                      ELSE search.th[u]],
                  !.pools = Append(@, NewPool(t, search.th[t].at, args.num_threads))]
    /\ UNCHANGED <<grid, call, result, norm, spectrum, sweep, dynamic>>

\* the pool sends the next task to an idle worker, the instance pickled
\* with it as it is at that moment
Dispatch(t, w) ==
    /\ search.th[t].pc = "mapping" /\ w \in 1..Len(search.th[t].busy)
    /\ search.th[t].busy[w] = 0
    /\ next_task(search.th[t].log, search.th[t].tasks) \in 1..Len(search.th[t].tasks)
    /\ \E k \in {next_task(search.th[t].log, search.th[t].tasks)} :
         search' = [search EXCEPT
                       !.th[t].busy[w] = k,
                       !.th[t].log = Append(@, k),
                       !.th[t].reads = @ \cup InstanceFields(search.obj)]
    /\ UNCHANGED <<grid, call, result, norm, spectrum, sweep, dynamic>>

\* a worker ends its call of the worker function on its copy of the
\* instance: a result for the slot of the task, or an exception
Complete(t, w) ==
    /\ search.th[t].pc = "mapping" /\ w \in 1..Len(search.th[t].busy)
    /\ search.th[t].busy[w] # 0
    /\ \E k \in {search.th[t].busy[w]} :
       \E r \in {WorkerCall(search.obj.sec, search.th[t].args, search.th[t].tasks[k])} :
         search' = [search EXCEPT
                       !.th[t].busy[w] = 0,
                       !.th[t].output =
                           IF r.status = "ok"
                           THEN [@ EXCEPT ![ResultSlot(k, w)] = r.item] ELSE @,
                       !.th[t].failure =
                           IF r.status # "ok" /\ @ = "" THEN r.status ELSE @]
    /\ UNCHANGED <<grid, call, result, norm, spectrum, sweep, dynamic>>

\* pool.map comes back.  With every task done and no exception, the rest
\* of the search: the dictionary, the profile, the assignments.  With an
\* exception of a worker, at once or when every task is done, the call
\* ends with it.
ReturnSearch(t) ==
    /\ search.th[t].pc = "mapping"
    /\ \/ search.th[t].failure # ""
       \/ /\ Len(search.th[t].log) = Len(search.th[t].tasks)
          /\ \A w \in 1..Len(search.th[t].busy) : search.th[t].busy[w] = 0
    /\ \E th \in {search.th[t]} :
       \E got \in {map_outcome(th.failure, th.output)} :
         IF got.status # "ok"
         THEN search' = [search EXCEPT
                  !.th[t] = Resting(th.at + 1),
                  !.done = Append(@, Ended(t, th.args, th.pre, got.status, << >>,
                                           th.log, th.failure, th.reads, th.beside,
                                           search.obj))]
         ELSE \E ret \in {ProfileOf(th.args.kind, got.output)} :
              \E post \in {StoreProfile(search.obj, th.args, ret)} :
                search' = [search EXCEPT
                  !.obj = post,
                  !.th[t] = Resting(th.at + 1),
                  !.done = Append(@, Ended(t, th.args, th.pre, "ok", ret, th.log,
                                           th.failure, th.reads \cup ReadAfterMap(th.args.kind),
                                           th.beside, post))]
    /\ UNCHANGED <<grid, call, result, norm, spectrum, sweep, dynamic>>

\* no search calls close, terminate or join on its pool: the local variable
\* pool is dropped when the call ends, and the workers of the pool live on
\* until the interpreter collects the pool object, at some time or never
CollectPool(p) ==
    /\ p \in 1..Len(search.pools) /\ search.pools[p].alive
    /\ ~(/\ search.th[search.pools[p].thread].pc = "mapping"
         /\ search.th[search.pools[p].thread].at = search.pools[p].at)
    /\ search' = [search EXCEPT !.pools[p].alive = FALSE]
    /\ UNCHANGED <<grid, call, result, norm, spectrum, sweep, dynamic>>

NextSearch ==
    \/ \E t \in SearchThreads : StartSearch(t)
    \/ \E t \in SearchThreads, w \in 1..MaxWorkers : Dispatch(t, w)
    \/ \E t \in SearchThreads, w \in 1..MaxWorkers : Complete(t, w)
    \/ \E t \in SearchThreads : ReturnSearch(t)
    \/ \E p \in 1..Len(search.pools) : CollectPool(p)

SpecSearch == InitSearch /\ [][NextSearch]_vars

\* the calls of SpecSearch that have ended
EndedCalls == {search.done[i] : i \in 1..Len(search.done)}

\* Python's order of the keys: of two numbers, and of two points (y, x)
KeyLt(kind, a, b) ==
    IF kind = "power_along_parabola"
    THEN RLt(a[1], b[1]) \/ (a[1] = b[1] /\ RLt(a[2], b[2]))
    ELSE RLt(a, b)

Ascending(kind, ret) ==
    \A k \in 1..(Len(ret) - 1) : KeyLt(kind, ret[k].eta, ret[k + 1].eta)

NoTaskTwice(log) == \A i, j \in 1..Len(log) : log[i] = log[j] => i = j

C18_SearchLeavesGridAlone ==
    /\ search.obj.sec = search.sec0
    /\ \A t \in SearchThreads :
          search.th[t].pc = "mapping" => search.th[t].pre.sec = search.sec0
    /\ \A d \in EndedCalls : d.pre.sec = search.sec0 /\ d.post.sec = search.sec0

\* C18 witness: one search has stored a profile of several pairs and
\* another has raised
C18_Witness ==
    \E d \in EndedCalls, e \in EndedCalls :
        /\ d.status = "ok" /\ Len(d.ret) >= 2 /\ d.post # d.pre
        /\ e.status # "ok"

\* the profiles that the instance holds for a kind of search
Held(kind, obj) ==
    IF kind = "make_1D_by_quadratic"
    THEN (IF obj.curvature.set THEN {obj.curvature.v} ELSE {})
    ELSE IF kind = "power_along_parabola"
    THEN {entry.powers : entry \in obj.parabola_power}
    ELSE (IF obj.width.set THEN {obj.width.v} ELSE {})

SearchKinds == {"make_1D_by_quadratic", "power_along_parabola", "parabola_width"}

RanBeside(d, e) ==
    /\ <<e.thread, e.at>> \in d.beside
    /\ e.args.kind # d.args.kind

\* a call ended as the same call ends when nothing runs beside it, and the
\* instance holds its profile
AsAlone(d) ==
    /\ d.status = d.alone.status
    /\ d.ret = d.alone.ret
    /\ d.status = "ok" => Held(d.args.kind, search.obj) = {d.alone.ret}

\* the attributes whose values a search uses: those read in the calling
\* thread and those read by the worker function
UsedBy(d) ==
    ReadBeforeMap(d.args.kind) \cup ReadAfterMap(d.args.kind) \cup UsedByWorker

SearchState(obj) ==
    [made_1D |-> obj.made_1D, curvature |-> obj.curvature,
     parabola_power |-> obj.parabola_power, width |-> obj.width]

\* C29: when a search fails, in a worker or before the pool is started, the
\* search state of the instance is what it was before the call: with no
\* other search beside it all of it, and otherwise all that no search
\* beside it has stored
C29_FailedSearchStoresNothing ==
    \A d \in EndedCalls :
        (d.failure # "" \/ d.status # "ok") =>
            /\ d.status # "ok" /\ d.writes = {}
            /\ d.beside = {} => SearchState(d.post) = SearchState(d.pre)
            /\ \A kind \in SearchKinds :
                  (\A e \in EndedCalls :
                      ~(<<e.thread, e.at>> \in d.beside /\ e.args.kind = kind)) =>
                      Held(kind, d.post) = Held(kind, d.pre)

\* C29 witness: after a curvature sweep that stored its profile, a width
\* sweep has failed in a worker and left the instance as it was
C29_Witness ==
    \E d \in EndedCalls :
        /\ d.failure = "IndexError" /\ d.pre.made_1D /\ d.pre.curvature.set
        /\ d.pre.curvature.v # << >>
        /\ d.args.kind = "parabola_width"
        /\ d.post = d.pre

\* the coordinates and the value of the k-th cell of a grid, row by row
GridCell(sec, k) ==
    [y |-> R(sec.y_axis[((k - 1) \div Len(sec.x_axis)) + 1]),
     x |-> R(sec.x_axis[((k - 1) % Len(sec.x_axis)) + 1]),
     v |-> sec.data[((k - 1) \div Len(sec.x_axis)) + 1][((k - 1) % Len(sec.x_axis)) + 1]]

\* the sigma that the worker function uses for a key of an ended call
KernelSigma(d, key) ==
    IF d.args.kind = "make_1D_by_quadratic"
    THEN (IF d.args.sigma.given THEN d.args.sigma.v ELSE PixelSpacing(d.pre.sec))
    ELSE IF d.args.kind = "power_along_parabola"
    THEN CHOOSE sigma \in
             {ClampSigma(tasks[CHOOSE i \in DOMAIN tasks : tasks[i].pt = key].sigma,
                         PixelSpacing(d.pre.sec)) :
                 tasks \in {along_parabola_tasks(d.pre.sec, d.args).tasks}} : TRUE
    ELSE PixelSpacing(d.pre.sec)

\* the weight w_c of a cell for a key of an ended call: the kernel of the
\* search
KernelWeight(d, key, sigma, c) ==
    IF d.args.kind = "make_1D_by_quadratic"
    THEN weight_function(key, c.x, c.y, sigma)
    ELSE IF d.args.kind = "power_along_parabola"
    THEN weight_function2(c.y, c.x, key[1], key[2], sigma)
    ELSE weight_function3(d.args.eta, c.y, c.x,
                          RAdd(c.y, RMul(d.args.eta, RMul(key, key))),
                          RSub(c.x, key), sigma)

\* sum(w_c * v_c) and sum(w_c) over the cells up to the k-th whose weight is
\* at the cut or above it, a value that is nan taken as it is or as 0
RECURSIVE KeptSums(_, _, _, _, _)
KeptSums(d, key, sigma, nan_as_zero, k) ==
    IF k = 0 THEN [num |-> R(0), den |-> R(0)]
    ELSE CHOOSE sums \in
             {IF w.none THEN rest
              ELSE [num |-> RAdd(rest.num,
                                 IF nan_as_zero /\ IsNaN(c.v) THEN R(0)
                                 ELSE RMul(w.v, c.v)),
                    den |-> RAdd(rest.den, w.v)] :
                 c \in {GridCell(d.pre.sec, k)},
                 w \in {KernelWeight(d, key, sigma, GridCell(d.pre.sec, k))},
                 rest \in {KeptSums(d, key, sigma, nan_as_zero, k - 1)}} : TRUE

\* every power of every returned profile is sum(w_c * v_c) / sum(w_c) over
\* the cells whose weight is at the cut or above it
PowerIsWeightedMean(nan_as_zero) ==
    \A d \in EndedCalls :
        d.status = "ok" =>
            \A i \in 1..Len(d.ret) :
                \E sums \in {KeptSums(d, d.ret[i].eta, KernelSigma(d, d.ret[i].eta),
                                      nan_as_zero,
                                      Len(d.pre.sec.y_axis) * Len(d.pre.sec.x_axis))} :
                    d.ret[i].power = RDiv(sums.num, sums.den)

SweepsReturned ==
    {i \in 1..Len(search.done) :
        /\ search.done[i].args.kind = "make_1D_by_quadratic"
        /\ search.done[i].status = "ok"}

\* the etas that a sweep samples
SampledEtas(args) ==
    {give_eta_list(args.eta_range, args.num)[k] : k \in 1..args.num}

\* made_1D is true exactly when a curvature sweep has returned, and then
\* etas and powers are those of the latest such sweep, strictly ascending in
\* eta, each power the one computed for its eta, with as many entries as
\* the sweep's num_etas or as the sweep sampled different etas
ProfileOfLatestSweep(by_num_etas) ==
    /\ search.obj.made_1D <=> SweepsReturned # {}
    /\ search.obj.made_1D <=> search.obj.curvature.set
    /\ search.obj.made_1D =>
          \E d \in {search.done[CHOOSE i \in SweepsReturned :
                                    \A j \in SweepsReturned : j <= i]} :
             /\ search.obj.curvature.v = d.ret
             /\ Len(d.ret) = IF by_num_etas THEN d.args.num
                              ELSE Cardinality(SampledEtas(d.args))
             /\ Ascending(d.args.kind, d.ret)
             /\ \A k \in 1..Len(d.ret) :
                   /\ d.ret[k].eta \in SampledEtas(d.args)
                   /\ \E l \in 1..Len(d.alone.ret) : d.ret[k] = d.alone.ret[l]

C21_NoPoolOutlivesItsSearch ==
    \A p \in 1..Len(search.pools) :
        \A d \in EndedCalls :
            (d.thread = search.pools[p].thread /\ d.at = search.pools[p].at) =>
                /\ search.pools[p].processes =
                      (IF d.args.num_threads = 0 THEN 1 ELSE d.args.num_threads)
                /\ ~search.pools[p].alive

(***************************************************************************)
(* Secondary.__init__ and the dimensions of its grid (specification        *)
(* SpecAxes): Dynamic.__init__, get_secondary_spectrum with its defaults,  *)
(* get_sec_axes and Indexed2D(data, axes).  Only the shape of the          *)
(* secondary spectrum is followed here: fftn, fftshift, the logarithm, the *)
(* normalisations and the background step keep the shape of the dynamic    *)
(* spectrum, and their values, for which get_secondary_spectrum may raise, *)
(* are those of SpecSec.  NAXIS1 and NAXIS2 are the shape of the raw       *)
(* matrix, as in SpecDyn.                                                  *)
(***************************************************************************)
MaxChans == 4

\* get_sec_axes with a delay axis as long as the channels
get_sec_axes_full_delay(hdu_header, rotate) ==
    LET t_int == HeaderFloat(hdu_header.T_INT)
        naxis2 == IF rotate THEN hdu_header.NAXIS2 ELSE hdu_header.NAXIS1
        bw == HeaderFloat(hdu_header.BW)
        nchans == IF rotate THEN hdu_header.NAXIS1 ELSE hdu_header.NAXIS2
        nyq_t == RDiv(R(1000), RMul(R(2), t_int.v))
        nyq_f == RDiv(R(nchans), RMul(R(2), RAbs(bw.v)))
    IN  [status |-> "ok",
         axes |-> << Reverse([i \in 1..nchans |->
                                 RNeg(Linspace(R(0), nyq_f, nchans)[i])]),
                     Linspace(RNeg(nyq_t), nyq_t, naxis2) >>]

\* get_sec_axes: T_INT, NAXIS1, NAXIS2 and BW are read in this order; the
\* count nchans / 2 of the delay axis is cut to a whole number
get_sec_axes(hdu_header, rotate) ==
    LET t_int == HeaderFloat(hdu_header.T_INT)
        naxis2 == IF rotate THEN hdu_header.NAXIS2 ELSE hdu_header.NAXIS1
        bw == HeaderFloat(hdu_header.BW)
        nchans == IF rotate THEN hdu_header.NAXIS1 ELSE hdu_header.NAXIS2
        nyq_t == RDiv(R(1000), RMul(R(2), t_int.v))
        nyq_f == RDiv(R(nchans), RMul(R(2), RAbs(bw.v)))
    IN  IF t_int.status # "ok" THEN [status |-> t_int.status, axes |-> << >>]
        ELSE IF bw.status # "ok" THEN [status |-> bw.status, axes |-> << >>]
        ELSE IF t_int.v = R(0) \/ bw.v = R(0)
        THEN [status |-> "ZeroDivisionError", axes |-> << >>]
        ELSE [status |-> "ok",
              axes |-> << Reverse([i \in 1..(nchans \div 2) |->
                                      RNeg(Linspace(R(0), nyq_f, nchans \div 2)[i])]),
                          Linspace(RNeg(nyq_t), nyq_t, naxis2) >>]

\* the array that get_secondary_spectrum() returns for a dynamic spectrum,
\* by its shape: the rows and columns of secondary[ymin:ymax, xmin:xmax],
\* every cell a value that is not followed
secondary_shape(dyn) ==
    LET kept == crop_bounds(Len(dyn), Len(dyn[1]), TRUE, R(1), R(1))
    IN  [i \in 1..Len(kept.rows) |-> [j \in 1..Len(kept.cols) |-> NaN]]

NoSecAxes == [status |-> "none", axes |-> <<<< >>, << >>>>]

\* Secondary(data, db_header, filename, rotate) up to self.sec; returned
\* tells whether get_secondary_spectrum returned or raised
Secondary_init(hdu, db_header, filename, rotate, returned) ==
    CHOOSE out \in
        {IF base.status # "ok"
         THEN [status |-> base.status, at |-> "Dynamic", dyn |-> << >>,
               data |-> << >>, axes |-> NoSecAxes, sec |-> NoGrid]
         ELSE IF ~returned
         THEN [status |-> "ValueError", at |-> "get_secondary_spectrum",
               dyn |-> base.obj.dyn, data |-> << >>, axes |-> NoSecAxes, sec |-> NoGrid]
         ELSE CHOOSE made \in
             {IF axes.status # "ok"
              THEN [status |-> axes.status, at |-> "get_sec_axes",
                    dyn |-> base.obj.dyn, data |-> data, axes |-> axes, sec |-> NoGrid]
              ELSE CHOOSE done \in
                  {[status |-> sec.status, at |-> "Indexed2D", dyn |-> base.obj.dyn,
                    data |-> data, axes |-> axes, sec |-> sec.grid] :
                      sec \in {Indexed2D(Given(data), Given(axes.axes))}} : TRUE :
                 data \in {secondary_shape(base.obj.dyn)},
                 axes \in {get_sec_axes(hdu.header, base.obj.rotate)}} : TRUE :
            base \in {Dynamic_init(hdu, db_header, filename, rotate)}} : TRUE

\* the files: raw matrices of 1..MaxChans rows and columns with their header
InitAxes ==
    /\ grid = NoGrid
    /\ call = Idle
    /\ result = NoResult
    /\ norm = NormOff
    /\ spectrum = SecOff
    /\ sweep = SweepOff
    /\ search = SearchOff
    /\ \E r \in 1..MaxChans, c \in 1..MaxChans :
       \E data \in RawData(r, c),
          t_int \in {Num(2), Num(5)}, bw \in {Num(0 - 2), Num(4), Text},
          rotate \in {NoRotate, Given(FALSE), Given(TRUE)} :
         dynamic = [pc |-> "ready",
                    hdu |-> [data |-> data,
                             header |-> [T_INT |-> t_int, FREQ |-> Num(3), BW |-> bw,
                                         NAXIS1 |-> c, NAXIS2 |-> r,
                                         present |-> {}]],
                    db_header |-> [filename |-> Text],
                    filename |-> NoFilename,
                    rotate |-> rotate,
                    made |-> [status |-> "none", at |-> "", dyn |-> << >>,
                              data |-> << >>, axes |-> NoSecAxes, sec |-> NoGrid]]

\* x = Secondary(data, db_header, filename, rotate)
ConstructWithAxes(returned) ==
    /\ dynamic.pc = "ready"
    /\ \E made \in {Secondary_init(dynamic.hdu, dynamic.db_header,
                                   dynamic.filename, dynamic.rotate, returned)} :
         dynamic' = [dynamic EXCEPT
                        !.pc = IF made.status = "ok" THEN "constructed" ELSE "raised",
                        !.made = made]
    /\ UNCHANGED <<grid, call, result, norm, spectrum, sweep, search>>

NextAxes == \E returned \in BOOLEAN : ConstructWithAxes(returned)

SpecAxes == InitAxes /\ [][NextAxes]_vars

\* the channels and the subintegrations of a file: NAXIS2 and NAXIS1, or
\* NAXIS1 and NAXIS2 with the rotate flag
ChannelCount ==
    IF dynamic.rotate.given /\ dynamic.rotate.v
    THEN dynamic.hdu.header.NAXIS1 ELSE dynamic.hdu.header.NAXIS2
SubintCount ==
    IF dynamic.rotate.given /\ dynamic.rotate.v
    THEN dynamic.hdu.header.NAXIS2 ELSE dynamic.hdu.header.NAXIS1

\* C25: for every count of channels and of subintegrations, even or odd,
\* and both values of the rotate flag, the delay axis of get_sec_axes has as
\* many entries as the cropped grid has rows, the whole part of half the
\* channel count, and the fringe axis as many as the grid has columns, so
\* that Indexed2D(data, axes) finds no mismatch: with a row or more in the
\* grid the Secondary is constructed on these axes (with one channel the
\* grid has no row, and reading its first row raises)
C25_SecAxesMatchCroppedGrid ==
    dynamic.made.at = "Indexed2D" =>
        \E delay \in {dynamic.made.axes.axes[1]}, fringe \in {dynamic.made.axes.axes[2]},
           kept \in {crop_bounds(Len(dynamic.made.dyn), Len(dynamic.made.dyn[1]),
                                 TRUE, R(1), R(1))} :
            /\ Len(delay) = ChannelCount \div 2
            /\ Len(delay) = Len(kept.rows)
            /\ Len(delay) = Len(dynamic.made.data)
            /\ Len(fringe) = SubintCount
            /\ Len(fringe) = Len(kept.cols)
            /\ \A i \in 1..Len(dynamic.made.data) :
                  Len(dynamic.made.data[i]) = Len(fringe)
            /\ ChannelCount >= 2 =>
                  /\ dynamic.pc = "constructed"
                  /\ dynamic.made.sec.y_axis = delay
                  /\ dynamic.made.sec.x_axis = fringe
                  /\ dynamic.made.sec.data = dynamic.made.data
            /\ ChannelCount = 1 => dynamic.made.status = "IndexError"

\* C25 witness: a Secondary was constructed with the rotate flag from a file
\* with an odd count of channels and an even count of subintegrations
C25_Witness ==
    /\ dynamic.pc = "constructed" /\ dynamic.made.at = "Indexed2D"
    /\ dynamic.rotate.given /\ dynamic.rotate.v
    /\ ChannelCount = 3 /\ SubintCount = 2
    /\ Len(dynamic.made.sec.y_axis) = 1 /\ Len(dynamic.made.sec.x_axis) = 2

====
